---- MODULE Spec2Model ----
(***************************************************************************)
(* Day-stepped SIR simulation over a contact network (src/src/simulation.py)*)
(* with its three infection-probability models (src/src/models/*.py) and    *)
(* the superspreader status tracker.                                        *)
(*                                                                          *)
(* Probabilities are exact rationals <<numerator, denominator>>.  A random  *)
(* draw in [0,1) is one of the two extreme values a generator can return:   *)
(* "lo" (0.0) and "hi" (the largest value below 1); `draw < p` then has     *)
(* exactly the outcomes any draw can give: never for p <= 0, always for     *)
(* p >= 1, either one in between.                                           *)
(***************************************************************************)
EXTENDS Integers, Sequences, FiniteSets, TLC

VARIABLES
    config,                    \* self.config (never assigned after __init__)
    edges,                     \* self.graph: the edge set, unordered pairs
    infection_state,           \* self.graph.nodes[n]['infection_state']
    days_infected,             \* self.graph.nodes[n]['days_infected'], NoAttr when not set
    immune_level,              \* self.graph.nodes[n]['immune_level']
    vaccine_effectiveness,     \* self.graph.nodes[n]['vaccine_effectiveness']
    current_day,               \* self.current_day
    results,                   \* self.results: five lists
    daily_superspreader_status,             \* self.daily_superspreader_status
    last_superspreader_status_update_day,   \* self.last_superspreader_status_update_day
    run_day,                   \* run(): the loop variable `day`, 0 when run() is not executing
    coin_flips,                \* random.random() calls made by the last determine_daily_status call
    uniform_draws,             \* np.random.rand() calls made by the last step()
    contact_chance,            \* self.graph.edges[u, v]['contact_chance']
    model_call,                \* the last call of a model's calculate_probability and its result
    other,                     \* a second Simulation instance of the same process
    np_random,                 \* numpy's module-global generator (np.random)
    py_random,                 \* the random module's global generator
    batch,                     \* main(): the configuration files and the progress of its loop
    setup,                     \* load_config and create_population_graph: how far a configuration got
    metrics                    \* the last return value of extract_summary_metrics

vars == <<config, edges, infection_state, days_infected, immune_level,
          vaccine_effectiveness, current_day, results,
          daily_superspreader_status, last_superspreader_status_update_day,
          run_day, coin_flips, uniform_draws, contact_chance, model_call,
          other, np_random, py_random, batch, setup, metrics>>

\* what the engine of one Simulation never touches
harness_vars == <<model_call, other, np_random, py_random, batch, setup, metrics>>

----------------------------------------------------------------------------
\* Bounds of the model.

\* population_size of the configurations explored
PopulationSize == 3
\* number_of_days is MaxDays when stepping day by day, 1..MaxDays under run()
MaxDays == 3
\* recovery_duration is 1 or MaxRecovery
MaxRecovery == 2
\* main() is given at most MaxFiles configuration files
MaxFiles == 3
\* the draws of a seeded generator repeat with period StreamPeriod
StreamPeriod == 2

Nodes == 0 .. (PopulationSize - 1)

\* The attribute is not set on the node (data.get('days_infected', 0) reads 0).
NoAttr == -1

\* no model function has been called
NoCall == [model |-> "none"]
\* no second Simulation has been constructed
NoSimulation == [constructed |-> FALSE]
\* a generator nobody seeded: its draws are arbitrary
Unseeded == [seed |-> <<>>, position |-> 0]
\* main() is not running
NoBatch == [pc |-> "none"]
\* the graph of the Simulation was set up before the model looks at it
NoSetup == [pc |-> "none"]
\* extract_summary_metrics was not called
NoMetrics == [computed |-> FALSE]

----------------------------------------------------------------------------
\* Exact rational arithmetic for the probabilities.

RECURSIVE GCD(_, _)
GCD(a, b) == IF b = 0 THEN a ELSE GCD(b, a % b)

Abs(x) == IF x < 0 THEN -x ELSE x

Rat(n, d) ==
    LET g == GCD(Abs(n), d)
    IN  IF g = 0 THEN <<0, 1>> ELSE <<n \div g, d \div g>>

RZero == <<0, 1>>
ROne  == <<1, 1>>
RMul(p, q) == Rat(p[1] * q[1], p[2] * q[2])
RSub(p, q) == Rat(p[1] * q[2] - q[1] * p[2], p[2] * q[2])
RLess(p, q) == p[1] * q[2] < q[1] * p[2]
RLeq(p, q) == p[1] * q[2] <= q[1] * p[2]
REq(p, q) == p[1] * q[2] = q[1] * p[2]
RMax(p, q) == IF RLess(p, q) THEN q ELSE p
RMin(p, q) == IF RLess(q, p) THEN q ELSE p

\* max(0.0, min(1.0, p))
Clamp01(p) == RMax(RZero, RMin(ROne, p))

\* dict.get(key, default)
Get(dict, key, default) == IF key \in DOMAIN dict THEN dict[key] ELSE default

----------------------------------------------------------------------------
\* Configurations.

Half == <<1, 2>>

\* dict with no keys
EmptyDict == [k \in {} |-> 0]

SupportedModelTypes == {"independent", "dependent", "superspreader_dynamic"}

\* infection_model.infection_parameters of the explored configurations
IndependentParams ==
    {[base_prob_transmission |-> p] : p \in {RZero, Half, ROne}}

\* alpha and beta: the defaults left out, and two extreme settings
DependentParams ==
    { EmptyDict,
      [alpha |-> <<0, 1>>, beta |-> <<1000, 1>>],
      [alpha |-> <<1000, 1>>, beta |-> <<0, 1>>] }

SuperspreaderParams ==
    { [p_becomes_superspreader |-> Half, normal_base_infectivity |-> Half,
       superspreader_multiplier |-> <<10, 1>>],
      [p_becomes_superspreader |-> ROne, normal_base_infectivity |-> <<1, 20>>,
       superspreader_multiplier |-> <<10, 1>>],
      [p_becomes_superspreader |-> RZero, normal_base_infectivity |-> ROne,
       superspreader_multiplier |-> <<1, 1>>] }

\* an infection_model.type outside the schema's enum
UnknownModelType == "seir_v2"

ModelSettings ==
    {[type |-> "independent", infection_parameters |-> ip] : ip \in IndependentParams}
    \cup {[type |-> "dependent", infection_parameters |-> ip] : ip \in DependentParams}
    \cup {[type |-> "superspreader_dynamic", infection_parameters |-> ip] :
            ip \in SuperspreaderParams}
    \cup {[type |-> UnknownModelType, infection_parameters |-> [base_prob_transmission |-> ROne]]}

\* the configurations with the given model settings, recovery durations and day counts
ConfigsOf(settings, durations, days) ==
    {[population_size |-> PopulationSize,
      initial_binomial_probability |-> ibp,
      number_of_days |-> d,
      infection_model |-> m @@ ("recovery_duration" :> r)] :
        ibp \in {RZero, Half}, d \in days, m \in settings, r \in durations}

\* the configurations stepped day by day
Configs == ConfigsOf(ModelSettings, {1, MaxRecovery}, {MaxDays})

\* the configurations also explored on graphs whose nodes have defenses
DefendedModelSettings ==
    { [type |-> "independent", infection_parameters |-> [base_prob_transmission |-> ROne]],
      [type |-> "dependent", infection_parameters |-> EmptyDict],
      [type |-> "superspreader_dynamic",
       infection_parameters |-> [p_becomes_superspreader |-> ROne,
                                 normal_base_infectivity |-> <<1, 20>>,
                                 superspreader_multiplier |-> <<10, 1>>]] }

DefendedConfigs == ConfigsOf(DefendedModelSettings, {1, MaxRecovery}, {MaxDays})

\* the configurations executed by run(): one setting of each model type
RunModelSettings ==
    { [type |-> "independent", infection_parameters |-> [base_prob_transmission |-> Half]],
      [type |-> "dependent", infection_parameters |-> EmptyDict],
      [type |-> "superspreader_dynamic",
       infection_parameters |-> [p_becomes_superspreader |-> Half,
                                 normal_base_infectivity |-> Half,
                                 superspreader_multiplier |-> <<10, 1>>]],
      [type |-> UnknownModelType, infection_parameters |-> [base_prob_transmission |-> Half]] }

RunConfigs == ConfigsOf(RunModelSettings, {1}, 1 .. MaxDays)

----------------------------------------------------------------------------
\* The graph.

AllPairs == {{a, b} : a, b \in Nodes} \ {{a} : a \in Nodes}

neighbors(n) == {m \in Nodes : {n, m} \in edges}

\* Outcomes of `draw < p` for a draw in [0,1): "lo" is 0.0, "hi" the largest
\* value below 1.
Below(draw, p) ==
    IF draw = "lo" THEN RLess(RZero, p) ELSE RLeq(ROne, p)

Draws == {"lo", "hi"}

\* np.random.binomial(1, p): 1 exactly when a uniform draw falls below p
Binomial1(draw, p) == Below(draw, p)

\* create_population_graph: the initial infection_state of every node
InitialInfectionStates(cfg) ==
    { [n \in Nodes |->
          IF Binomial1(d[n], cfg.initial_binomial_probability)
          THEN "infected" ELSE "susceptible"] : d \in [Nodes -> Draws] }

\* create_population_graph: immune_level and vaccine_effectiveness, each a
\* normal sample clipped to [0,1].  Node 0 gets one pair of values and the
\* other nodes another; every edge set and every initial infection set is
\* explored, so the position of the distinguished node loses nothing.
DefenseProfile(a, b) ==
    <<[n \in Nodes |-> IF n = 0 THEN a[1] ELSE b[1]],
      [n \in Nodes |-> IF n = 0 THEN a[2] ELSE b[2]]>>

NoDefense == DefenseProfile(<<RZero, RZero>>, <<RZero, RZero>>)

DefenseProfiles ==
    { DefenseProfile(<<ROne, RZero>>, <<Half, Half>>),
      DefenseProfile(<<RZero, ROne>>, <<RZero, RZero>>) }

----------------------------------------------------------------------------
\* The infection-probability models.  `st` is the infection_state of every
\* node as the graph holds it when the model is called.

InfectionParams(cfg) ==
    Get(Get(cfg, "infection_model", EmptyDict), "infection_parameters", EmptyDict)

InfectedNeighbors(n, st) == {m \in neighbors(n) : st[m] = "infected"}

InfectedNodes(st) == {n \in Nodes : st[n] = "infected"}

\* p * p * ... * p, k factors
RECURSIVE RPow(_, _)
RPow(p, k) == IF k = 0 THEN ROne ELSE RMul(p, RPow(p, k - 1))

\* src/src/models/independent.py
independent_calculate_probability_ImmunityOnly(n, st, cfg) ==
    LET base_prob_transmission ==
            Get(InfectionParams(cfg), "base_prob_transmission", <<1, 20>>)
        prob_infection_from_this_neighbor ==
            Clamp01(RMul(base_prob_transmission, RSub(ROne, immune_level[n])))
        prob_not_infected_by_any_neighbor ==
            RPow(RSub(ROne, prob_infection_from_this_neighbor),
                 Cardinality(InfectedNeighbors(n, st)))
    IN  Clamp01(RSub(ROne, prob_not_infected_by_any_neighbor))

independent_calculate_probability(n, st, cfg) ==
    LET base_prob_transmission ==
            Get(InfectionParams(cfg), "base_prob_transmission", <<1, 20>>)
        prob_infection_from_this_neighbor ==
            Clamp01(RMul(base_prob_transmission,
                         RMul(RSub(ROne, immune_level[n]),
                              RSub(ROne, vaccine_effectiveness[n]))))
        prob_not_infected_by_any_neighbor ==
            RPow(RSub(ROne, prob_infection_from_this_neighbor),
                 Cardinality(InfectedNeighbors(n, st)))
    IN  Clamp01(RSub(ROne, prob_not_infected_by_any_neighbor))

\* Python floats are IEEE 754 binary64.  A binary64 value in [2^-7, 1], or
\* 0.0, is held exactly as a count of units of 2^-60, in two limbs:
\* <<hi, lo>> stands for hi * 2^30 + lo.
Limb == 1073741824
\* the bits of a binary64 significand
SignificandBits == 53
\* the limb is cut into chunks of 2^10 when a quotient is developed
Chunk == 1024

B64Zero == <<0, 0>>
B64One == <<Limb, 0>>

\* floor(log2(x)) for x >= 1
RECURSIVE Log2(_)
Log2(x) == IF x <= 1 THEN 0 ELSE 1 + Log2(x \div 2)

\* the unit in the last place of the binade of v, in units of 2^-60
Ulp(v) ==
    LET e == IF v[1] > 0 THEN 30 + Log2(v[1]) ELSE Log2(v[2])
    IN  IF e >= SignificandBits THEN 2 ^ (e - (SignificandBits - 1)) ELSE 1

\* round-to-nearest, ties-to-even, of the real number v + (a fraction of a
\* unit, present when `sticky`) to the binary64 grid
B64Round(v, sticky) ==
    IF v = B64Zero THEN v
    ELSE LET u == Ulp(v)
             r == v[2] % u
             up == \/ 2 * r > u
                   \/ 2 * r = u /\ sticky
                   \/ 2 * r = u /\ ~sticky /\ (v[2] \div u) % 2 = 1
             lo == IF up THEN v[2] - r + u ELSE v[2] - r
         IN  IF lo = Limb THEN <<v[1] + 1, 0>> ELSE <<v[1], lo>>

\* float(literal): the binary64 nearest to the rational n/d of [0,1]
Binary64(x) ==
    LET n == x[1]
        d == x[2]
        q1 == (n * Chunk) \div d
        r1 == (n * Chunk) % d
        q2 == (r1 * Chunk) \div d
        r2 == (r1 * Chunk) % d
        q3 == (r2 * Chunk) \div d
        r3 == (r2 * Chunk) % d
        q4 == (r3 * Chunk) \div d
        r4 == (r3 * Chunk) % d
        q5 == (r4 * Chunk) \div d
        r5 == (r4 * Chunk) % d
        q6 == (r5 * Chunk) \div d
        r6 == (r5 * Chunk) % d
    IN  IF n = d THEN B64One
        ELSE B64Round(<<(q1 * Chunk + q2) * Chunk + q3, (q4 * Chunk + q5) * Chunk + q6>>,
                      r6 # 0)

\* the binary64 result of 1.0 - v, for v in [0,1]
B64OneMinus(v) ==
    B64Round(IF v[2] = 0 THEN <<Limb - v[1], 0>> ELSE <<Limb - v[1] - 1, Limb - v[2]>>,
             FALSE)

\* independent.calculate_probability that takes every neighbour as infected
independent_calculate_probability_binary64_AnyNeighbor(n, st, cfg) ==
    LET base_prob_transmission ==
            Binary64(Get(InfectionParams(cfg), "base_prob_transmission", <<1, 20>>))
    IN  IF neighbors(n) = {} THEN B64OneMinus(B64One)
        ELSE B64OneMinus(B64OneMinus(base_prob_transmission))

\* src/src/models/independent.py as binary64 arithmetic carries it out, for
\* the calls in which every product has a factor 1.0 and is therefore exact:
\* no infected neighbour (the loop body never runs), or one infected
\* neighbour of a node whose immune_level and vaccine_effectiveness are 0.0
\* (base * 1.0 * 1.0, then 1.0 * (1.0 - p)).  max(0.0, min(1.0, x)) leaves a
\* value of [0,1] as it is.
independent_calculate_probability_binary64(n, st, cfg) ==
    LET base_prob_transmission ==
            Binary64(Get(InfectionParams(cfg), "base_prob_transmission", <<1, 20>>))
        prob_not_infected_by_any_neighbor ==
            IF InfectedNeighbors(n, st) = {} THEN B64One
            ELSE B64OneMinus(base_prob_transmission)
    IN  B64OneMinus(prob_not_infected_by_any_neighbor)

\* the calls independent_calculate_probability_binary64 covers
Binary64Covers(n, st) ==
    \/ InfectedNeighbors(n, st) = {}
    \/ /\ Cardinality(InfectedNeighbors(n, st)) = 1
       /\ immune_level[n] = RZero
       /\ vaccine_effectiveness[n] = RZero

\* 1000 * e^w for w = 0..6, and 1000 * e^(j/10) for j = 0..9, rounded
ExpWholeMilli == <<1000, 2718, 7389, 20086, 54598, 148413, 403429>>
ExpTenthMilli == <<1000, 1105, 1221, 1350, 1492, 1649, 1822, 2014, 2226, 2460>>

\* the largest argument, in tenths, the fixed-point table covers
ExpTableMaxTenths == 69
\* math.exp(x) raises OverflowError for x above 709.78 (in tenths)
ExpOverflowTenths == 7097
\* 1 + math.exp(x) rounds to 1.0 for x below -36.73 (in tenths)
ExpVanishTenths == 367

\* 1000 * e^(t/10) in fixed point, t >= 0 in tenths, capped at the table's end
ExpMilli(t) ==
    LET c == IF t > ExpTableMaxTenths THEN ExpTableMaxTenths ELSE t
    IN  (ExpWholeMilli[(c \div 10) + 1] * ExpTenthMilli[(c % 10) + 1]) \div 1000

\* the rational x in tenths, rounded towards minus infinity
Tenths(x) == (x[1] * 10) \div x[2]

\* the sigmoid with the two values of its except branch exchanged
Sigmoid_ExceptSwapped(exponent_val) ==
    LET t == Tenths(exponent_val)
    IN  IF t > ExpOverflowTenths
        THEN (IF RLess(RZero, exponent_val) THEN ROne ELSE RZero)
        ELSE IF t < -ExpVanishTenths THEN ROne
        ELSE IF t >= 0 THEN Rat(1000, 1000 + ExpMilli(t))
        ELSE Rat(ExpMilli(-t), 1000 + ExpMilli(-t))

\* 1 / (1 + math.exp(exponent_val)) with the except branch of the model
Sigmoid(exponent_val) ==
    LET t == Tenths(exponent_val)
    IN  IF t > ExpOverflowTenths
        THEN (IF RLess(RZero, exponent_val) THEN RZero ELSE ROne)
        ELSE IF t < -ExpVanishTenths THEN ROne
        ELSE IF t >= 0 THEN Rat(1000, 1000 + ExpMilli(t))
        ELSE Rat(ExpMilli(-t), 1000 + ExpMilli(-t))

\* the dependent model with exponent_val = alpha * k + beta
dependent_calculate_probability_RisingExponent(n, st, cfg) ==
    LET k == Cardinality(InfectedNeighbors(n, st))
        alpha == Get(InfectionParams(cfg), "alpha", <<1, 10>>)
        beta == Get(InfectionParams(cfg), "beta", <<3, 1>>)
        exponent_val == RSub(beta, RMul(RSub(RZero, alpha), <<k, 1>>))
        final_prob_infection ==
            RMul(Sigmoid(exponent_val),
                 RMul(RSub(ROne, immune_level[n]), RSub(ROne, vaccine_effectiveness[n])))
    IN  Clamp01(final_prob_infection)

\* src/src/models/dependent.py
dependent_calculate_probability(n, st, cfg) ==
    LET k == Cardinality(InfectedNeighbors(n, st))
        alpha == Get(InfectionParams(cfg), "alpha", <<1, 10>>)
        beta == Get(InfectionParams(cfg), "beta", <<3, 1>>)
        exponent_val == RSub(beta, RMul(alpha, <<k, 1>>))
        sigmoid_prob == Sigmoid(exponent_val)
        final_prob_infection ==
            RMul(sigmoid_prob,
                 RMul(RSub(ROne, immune_level[n]), RSub(ROne, vaccine_effectiveness[n])))
    IN  Clamp01(final_prob_infection)

\* the loop without the clamp of the per-neighbour probability
RECURSIVE SuperspreaderProduct_Unclamped(_, _, _, _)
SuperspreaderProduct_Unclamped(nbrs, n, cfg, status) ==
    IF nbrs = {} THEN ROne
    ELSE LET neighbor_id == CHOOSE m \in nbrs : TRUE
             normal_base_infectivity ==
                 Get(InfectionParams(cfg), "normal_base_infectivity", <<1, 20>>)
             superspreader_multiplier ==
                 Get(InfectionParams(cfg), "superspreader_multiplier", <<10, 1>>)
             current_base_infectivity ==
                 IF Get(status, neighbor_id, FALSE)
                 THEN RMul(normal_base_infectivity, superspreader_multiplier)
                 ELSE normal_base_infectivity
             prob_infection_from_this_neighbor ==
                 RMul(current_base_infectivity,
                      RMul(RSub(ROne, immune_level[n]),
                           RSub(ROne, vaccine_effectiveness[n])))
         IN  RMul(RSub(ROne, prob_infection_from_this_neighbor),
                  SuperspreaderProduct_Unclamped(nbrs \ {neighbor_id}, n, cfg, status))

\* the loop looking up the flag of the susceptible node instead of the
\* neighbour's
RECURSIVE SuperspreaderProduct_OwnFlag(_, _, _, _)
SuperspreaderProduct_OwnFlag(nbrs, n, cfg, status) ==
    IF nbrs = {} THEN ROne
    ELSE LET neighbor_id == CHOOSE m \in nbrs : TRUE
             normal_base_infectivity ==
                 Get(InfectionParams(cfg), "normal_base_infectivity", <<1, 20>>)
             superspreader_multiplier ==
                 Get(InfectionParams(cfg), "superspreader_multiplier", <<10, 1>>)
             current_base_infectivity ==
                 IF Get(status, n, FALSE)
                 THEN RMul(normal_base_infectivity, superspreader_multiplier)
                 ELSE normal_base_infectivity
             prob_infection_from_this_neighbor ==
                 Clamp01(RMul(current_base_infectivity,
                              RMul(RSub(ROne, immune_level[n]),
                                   RSub(ROne, vaccine_effectiveness[n]))))
         IN  RMul(RSub(ROne, prob_infection_from_this_neighbor),
                  SuperspreaderProduct_OwnFlag(nbrs \ {neighbor_id}, n, cfg, status))

\* the loop with every infected neighbour amplified, flagged or not
RECURSIVE SuperspreaderProduct_AlwaysAmplified(_, _, _, _)
SuperspreaderProduct_AlwaysAmplified(nbrs, n, cfg, status) ==
    IF nbrs = {} THEN ROne
    ELSE LET neighbor_id == CHOOSE m \in nbrs : TRUE
             normal_base_infectivity ==
                 Get(InfectionParams(cfg), "normal_base_infectivity", <<1, 20>>)
             superspreader_multiplier ==
                 Get(InfectionParams(cfg), "superspreader_multiplier", <<10, 1>>)
             current_base_infectivity ==
                 RMul(normal_base_infectivity, superspreader_multiplier)
             prob_infection_from_this_neighbor ==
                 Clamp01(RMul(current_base_infectivity,
                              RMul(RSub(ROne, immune_level[n]),
                                   RSub(ROne, vaccine_effectiveness[n]))))
         IN  RMul(RSub(ROne, prob_infection_from_this_neighbor),
                  SuperspreaderProduct_AlwaysAmplified(nbrs \ {neighbor_id}, n, cfg, status))

\* the loop of superspreader.calculate_probability over the infected neighbours
RECURSIVE SuperspreaderProduct(_, _, _, _)
SuperspreaderProduct(nbrs, n, cfg, status) ==
    IF nbrs = {} THEN ROne
    ELSE LET neighbor_id == CHOOSE m \in nbrs : TRUE
             normal_base_infectivity ==
                 Get(InfectionParams(cfg), "normal_base_infectivity", <<1, 20>>)
             superspreader_multiplier ==
                 Get(InfectionParams(cfg), "superspreader_multiplier", <<10, 1>>)
             is_superspreader == Get(status, neighbor_id, FALSE)
             current_base_infectivity ==
                 IF is_superspreader
                 THEN RMul(normal_base_infectivity, superspreader_multiplier)
                 ELSE normal_base_infectivity
             prob_infection_from_this_neighbor ==
                 Clamp01(RMul(current_base_infectivity,
                              RMul(RSub(ROne, immune_level[n]),
                                   RSub(ROne, vaccine_effectiveness[n]))))
         IN  RMul(RSub(ROne, prob_infection_from_this_neighbor),
                  SuperspreaderProduct(nbrs \ {neighbor_id}, n, cfg, status))

\* src/src/models/superspreader.py calculate_probability
superspreader_calculate_probability(n, st, cfg, status) ==
    Clamp01(RSub(ROne, SuperspreaderProduct(InfectedNeighbors(n, st), n, cfg, status)))

\* determine_daily_status without the early return
determine_daily_status_NoCache(st, cfg, day, last_status_update_day, existing_status, flips) ==
    LET p_becomes_superspreader ==
            Get(InfectionParams(cfg), "p_becomes_superspreader", <<1, 100>>)
        infected == {n \in Nodes : st[n] = "infected"}
    IN  <<[n \in infected |-> Below(flips[n], p_becomes_superspreader)],
          day, Cardinality(infected)>>

\* determine_daily_status that marks the map fresh for the day after
determine_daily_status_NextDay(st, cfg, day, last_status_update_day, existing_status, flips) ==
    IF day = last_status_update_day
    THEN <<existing_status, last_status_update_day, 0>>
    ELSE LET p_becomes_superspreader ==
                 Get(InfectionParams(cfg), "p_becomes_superspreader", <<1, 100>>)
             infected == {n \in Nodes : st[n] = "infected"}
         IN  <<[n \in infected |-> Below(flips[n], p_becomes_superspreader)],
               day + 1, Cardinality(infected)>>

\* determine_daily_status that keeps a map once it has entries
determine_daily_status_KeepNonEmpty(st, cfg, day, last_status_update_day, existing_status, flips) ==
    IF day = last_status_update_day \/ DOMAIN existing_status # {}
    THEN <<existing_status, day, 0>>
    ELSE LET p_becomes_superspreader ==
                 Get(InfectionParams(cfg), "p_becomes_superspreader", <<1, 100>>)
             infected == {n \in Nodes : st[n] = "infected"}
         IN  <<[n \in infected |-> Below(flips[n], p_becomes_superspreader)],
               day, Cardinality(infected)>>

\* superspreader.determine_daily_status; flips[n] is the random.random() draw
\* made for node n.  Returns <<status map, last update day, number of draws>>.
determine_daily_status(st, cfg, day, last_status_update_day, existing_status, flips) ==
    IF day = last_status_update_day
    THEN <<existing_status, last_status_update_day, 0>>
    ELSE LET p_becomes_superspreader ==
                 Get(InfectionParams(cfg), "p_becomes_superspreader", <<1, 100>>)
             infected == {n \in Nodes : st[n] = "infected"}
         IN  <<[n \in infected |-> Below(flips[n], p_becomes_superspreader)],
               day, Cardinality(infected)>>

----------------------------------------------------------------------------
\* Simulation.

\* record_stats that looks for a state name no node ever has ('removed')
record_stats_NoRecovered(res, st, day) ==
    [res EXCEPT
        !.day = Append(@, day),
        !.susceptible = Append(@, Cardinality({n \in Nodes : st[n] = "susceptible"})),
        !.infected = Append(@, Cardinality({n \in Nodes : st[n] = "infected"})),
        !.recovered = Append(@, Cardinality({n \in Nodes : st[n] = "removed"}))]

\* record_stats that numbers the days from 1
record_stats_DayFromOne(res, st, day) ==
    [res EXCEPT
        !.day = Append(@, day + 1),
        !.susceptible = Append(@, Cardinality({n \in Nodes : st[n] = "susceptible"})),
        !.infected = Append(@, Cardinality({n \in Nodes : st[n] = "infected"})),
        !.recovered = Append(@, Cardinality({n \in Nodes : st[n] = "recovered"}))]

\* Simulation.record_stats: counts the three states and appends to the lists
record_stats(res, st, day) ==
    [res EXCEPT
        !.day = Append(@, day),
        !.susceptible = Append(@, Cardinality({n \in Nodes : st[n] = "susceptible"})),
        !.infected = Append(@, Cardinality({n \in Nodes : st[n] = "infected"})),
        !.recovered = Append(@, Cardinality({n \in Nodes : st[n] = "recovered"}))]

\* a construction that records no newly_infected_today entry for day 0
InitialResults_NoDayZeroEntry(st) ==
    record_stats([day |-> <<>>, susceptible |-> <<>>, infected |-> <<>>,
                  recovered |-> <<>>, newly_infected_today |-> <<>>],
                 st, 0)

\* Simulation.__init__: the results after construction
InitialResults(st) ==
    record_stats([day |-> <<>>, susceptible |-> <<>>, infected |-> <<>>,
                  recovered |-> <<>>, newly_infected_today |-> <<0>>],
                 st, 0)

\* Simulation.__init__ on one of the configurations `cfgs`, the graph's
\* defenses drawn from `profiles`
Construct(cfgs, profiles) ==
    /\ config \in cfgs
    /\ edges \in SUBSET AllPairs
    /\ infection_state \in InitialInfectionStates(config)
    /\ \E profile \in profiles :
          /\ immune_level = profile[1]
          /\ vaccine_effectiveness = profile[2]
    /\ contact_chance = [e \in edges |-> Half]
    /\ days_infected = [n \in Nodes |-> NoAttr]
    /\ current_day = 0
    /\ results = InitialResults(infection_state)
    /\ daily_superspreader_status = EmptyDict
    /\ last_superspreader_status_update_day = -1
    /\ run_day = 0
    /\ coin_flips = 0
    /\ uniform_draws = 0

\* one Simulation in a process that never seeds the generators, calls no
\* model function from outside the engine and is not main()
HarnessIdle ==
    /\ model_call = NoCall
    /\ other = NoSimulation
    /\ np_random = Unseeded
    /\ py_random = Unseeded
    /\ batch = NoBatch
    /\ setup = NoSetup
    /\ metrics = NoMetrics

\* the engine constructed for stepping: every model setting on undefended
\* nodes, and one setting of each model on defended nodes
Init ==
    /\ \/ Construct(Configs, {NoDefense})
       \/ Construct(DefendedConfigs, DefenseProfiles)
    /\ HarnessIdle

\* the engine constructed for run()
RunInit == Construct(RunConfigs, {NoDefense}) /\ HarnessIdle

\* step(): model_type and recovery_duration_from_config
ModelType(cfg) == Get(Get(cfg, "infection_model", EmptyDict), "type", "independent")
RecoveryDuration(cfg) == Get(Get(cfg, "infection_model", EmptyDict), "recovery_duration", 14)

\* step() without the has_infected_neighbor guard
has_infected_neighbor_Always(n, st) == TRUE

\* a test that no longer counts a neighbour whose recovery is due today
has_infected_neighbor_RecoveringExcluded(n, st) ==
    \E m \in neighbors(n) :
        /\ st[m] = "infected"
        /\ (IF days_infected[m] = NoAttr THEN 0 ELSE days_infected[m]) + 1
              < RecoveryDuration(config)

\* step(): any(... == 'infected' for neighbor_id in neighbors)
has_infected_neighbor(n, st) == \E m \in neighbors(n) : st[m] = "infected"

\* step(): the dispatch on model_type, with its fallback to the independent model
ModelProbability(n, st, cfg, status) ==
    IF ModelType(cfg) = "independent" THEN independent_calculate_probability(n, st, cfg)
    ELSE IF ModelType(cfg) = "dependent" THEN dependent_calculate_probability(n, st, cfg)
    ELSE IF ModelType(cfg) = "superspreader_dynamic"
         THEN superspreader_calculate_probability(n, st, cfg, status)
    ELSE independent_calculate_probability(n, st, cfg)

\* step(): prob_infection_today of one susceptible node
prob_infection_today(n, st, cfg, status) ==
    IF has_infected_neighbor(n, st) THEN ModelProbability(n, st, cfg, status) ELSE RZero

\* a recovery pass that goes on counting the days of recovered nodes
RecoveryPassDays_CountsRecovered(st, days) ==
    [n \in Nodes |->
        IF st[n] \in {"infected", "recovered"}
        THEN (IF days[n] = NoAttr THEN 0 ELSE days[n]) + 1
        ELSE days[n]]

\* step(): data['days_infected'] = data.get('days_infected', 0) + 1 for infected nodes
RecoveryPassDays(st, days) ==
    [n \in Nodes |->
        IF st[n] = "infected"
        THEN (IF days[n] = NoAttr THEN 0 ELSE days[n]) + 1
        ELSE days[n]]

\* a recovery test that lets the counter pass recovery_duration first
NewlyRecovered_DayLate(st, days, cfg) ==
    {n \in Nodes : st[n] = "infected" /\ days[n] > RecoveryDuration(cfg)}

\* step(): newly_recovered_today, from the incremented counters
NewlyRecovered(st, days, cfg) ==
    {n \in Nodes : st[n] = "infected" /\ days[n] >= RecoveryDuration(cfg)}

\* an infection pass that commits each infection at once, so that a node
\* visited after a newly infected neighbour already sees it as infected
NewlyInfected_MidPass(susceptible_nodes, prob, draws) ==
    LET first == {n \in susceptible_nodes : Below(draws[n], prob[n])}
    IN  first \cup {n \in susceptible_nodes :
                      draws[n] = "lo" /\ \E m \in first : {n, m} \in edges}

\* step(): newly_infected_today; prob[n] is prob_infection_today of the
\* susceptible node n and draws[n] its np.random.rand()
NewlyInfected(susceptible_nodes, prob, draws) ==
    {n \in susceptible_nodes : Below(draws[n], prob[n])}

\* a commit that returns recovering nodes to the susceptible pool
CommitStates_Reinfectable(st, newly_infected, newly_recovered) ==
    [n \in Nodes |->
        IF n \in newly_recovered THEN "susceptible"
        ELSE IF n \in newly_infected THEN "infected"
        ELSE st[n]]

\* a commit after which immunity lasts one day: a node recovered before
\* today is susceptible again
CommitStates_LosingImmunity(st, newly_infected, newly_recovered) ==
    [n \in Nodes |->
        IF n \in newly_recovered THEN "recovered"
        ELSE IF n \in newly_infected THEN "infected"
        ELSE IF st[n] = "recovered" THEN "susceptible"
        ELSE st[n]]

\* a commit that takes the two sets as one on a day with recoveries: the
\* newly infected nodes are committed as recovered with the others
CommitStates_FastTrack(st, newly_infected, newly_recovered) ==
    [n \in Nodes |->
        IF n \in newly_recovered THEN "recovered"
        ELSE IF n \in newly_infected
             THEN (IF newly_recovered # {} THEN "recovered" ELSE "infected")
        ELSE st[n]]

\* step(): "Update states", the two commit loops
CommitStates(st, newly_infected, newly_recovered) ==
    [n \in Nodes |->
        IF n \in newly_recovered THEN "recovered"
        ELSE IF n \in newly_infected THEN "infected"
        ELSE st[n]]

\* a commit that leaves the counter of a newly infected node as it was
CommitDays_NoReset(days, newly_infected) == days

CommitDays(days, newly_infected) ==
    [n \in Nodes |-> IF n \in newly_infected THEN 0 ELSE days[n]]

\* a step() that draws only for the susceptible nodes that have an infected
\* neighbour
step_DrawWhenExposed ==
    IF current_day >= config.number_of_days
    THEN UNCHANGED <<infection_state, days_infected, current_day, results,
                     daily_superspreader_status, last_superspreader_status_update_day,
                     coin_flips, uniform_draws>>
    ELSE
      LET dynamic == ModelType(config) = "superspreader_dynamic"
          infected == {n \in Nodes : infection_state[n] = "infected"}
          susceptible_nodes == {n \in Nodes : infection_state[n] = "susceptible"}
          days1 == RecoveryPassDays(infection_state, days_infected)
          newly_recovered_today == NewlyRecovered(infection_state, days1, config)
      IN
      \E determined \in
            IF dynamic
            THEN {determine_daily_status(infection_state, config, current_day,
                                         last_superspreader_status_update_day,
                                         daily_superspreader_status, flips) :
                     flips \in [infected -> Draws]}
            ELSE {<<daily_superspreader_status,
                    last_superspreader_status_update_day, coin_flips>>} :
        LET prob == [n \in susceptible_nodes |->
                        prob_infection_today(n, infection_state, config, determined[1])]
        IN
        \E newly_infected_today \in
              {NewlyInfected(susceptible_nodes, prob, draws) :
                  draws \in [susceptible_nodes -> Draws]} :
          LET committed ==
                  CommitStates(infection_state, newly_infected_today,
                               newly_recovered_today)
          IN
          /\ daily_superspreader_status' = determined[1]
          /\ last_superspreader_status_update_day' = determined[2]
          /\ coin_flips' = determined[3]
          /\ uniform_draws' =
                Cardinality({n \in susceptible_nodes :
                                has_infected_neighbor(n, infection_state)})
          /\ infection_state' = committed
          /\ days_infected' = CommitDays(days1, newly_infected_today)
          /\ current_day' = current_day + 1
          /\ results' =
               record_stats(
                   [results EXCEPT !.newly_infected_today =
                                       Append(@, Cardinality(newly_infected_today))],
                   committed, current_day + 1)

\* a step() that returns early only once current_day has passed
\* number_of_days
step_OneDayMore ==
    IF current_day > config.number_of_days
    THEN UNCHANGED <<infection_state, days_infected, current_day, results,
                     daily_superspreader_status, last_superspreader_status_update_day,
                     coin_flips, uniform_draws>>
    ELSE
      LET dynamic == ModelType(config) = "superspreader_dynamic"
          infected == {n \in Nodes : infection_state[n] = "infected"}
          susceptible_nodes == {n \in Nodes : infection_state[n] = "susceptible"}
          days1 == RecoveryPassDays(infection_state, days_infected)
          newly_recovered_today == NewlyRecovered(infection_state, days1, config)
      IN
      \E determined \in
            IF dynamic
            THEN {determine_daily_status(infection_state, config, current_day,
                                         last_superspreader_status_update_day,
                                         daily_superspreader_status, flips) :
                     flips \in [infected -> Draws]}
            ELSE {<<daily_superspreader_status,
                    last_superspreader_status_update_day, coin_flips>>} :
        LET prob == [n \in susceptible_nodes |->
                        prob_infection_today(n, infection_state, config, determined[1])]
        IN
        \E newly_infected_today \in
              {NewlyInfected(susceptible_nodes, prob, draws) :
                  draws \in [susceptible_nodes -> Draws]} :
          LET committed ==
                  CommitStates(infection_state, newly_infected_today,
                               newly_recovered_today)
          IN
          /\ daily_superspreader_status' = determined[1]
          /\ last_superspreader_status_update_day' = determined[2]
          /\ coin_flips' = determined[3]
          /\ uniform_draws' = Cardinality(susceptible_nodes)
          /\ infection_state' = committed
          /\ days_infected' = CommitDays(days1, newly_infected_today)
          /\ current_day' = current_day + 1
          /\ results' =
               record_stats(
                   [results EXCEPT !.newly_infected_today =
                                       Append(@, Cardinality(newly_infected_today))],
                   committed, current_day + 1)

\* Simulation.step
step ==
    IF current_day >= config.number_of_days
    THEN UNCHANGED <<infection_state, days_infected, current_day, results,
                     daily_superspreader_status, last_superspreader_status_update_day,
                     coin_flips, uniform_draws>>
    ELSE
      LET dynamic == ModelType(config) = "superspreader_dynamic"
          infected == {n \in Nodes : infection_state[n] = "infected"}
          susceptible_nodes == {n \in Nodes : infection_state[n] = "susceptible"}
          days1 == RecoveryPassDays(infection_state, days_infected)
          newly_recovered_today == NewlyRecovered(infection_state, days1, config)
      IN
      \E determined \in
            IF dynamic
            THEN {determine_daily_status(infection_state, config, current_day,
                                         last_superspreader_status_update_day,
                                         daily_superspreader_status, flips) :
                     flips \in [infected -> Draws]}
            ELSE {<<daily_superspreader_status,
                    last_superspreader_status_update_day, coin_flips>>} :
        LET prob == [n \in susceptible_nodes |->
                        prob_infection_today(n, infection_state, config, determined[1])]
        IN
        \E newly_infected_today \in
              {NewlyInfected(susceptible_nodes, prob, draws) :
                  draws \in [susceptible_nodes -> Draws]} :
          LET committed ==
                  CommitStates(infection_state, newly_infected_today,
                               newly_recovered_today)
          IN
          /\ daily_superspreader_status' = determined[1]
          /\ last_superspreader_status_update_day' = determined[2]
          /\ coin_flips' = determined[3]
          /\ uniform_draws' = Cardinality(susceptible_nodes)
          /\ infection_state' = committed
          /\ days_infected' = CommitDays(days1, newly_infected_today)
          /\ current_day' = current_day + 1
          /\ results' =
               record_stats(
                   [results EXCEPT !.newly_infected_today =
                                       Append(@, Cardinality(newly_infected_today))],
                   committed, current_day + 1)

\* a step() after which a recovered node is fully immune
Step_WaningImmunity ==
    /\ run_day = 0
    /\ step
    /\ immune_level' = [n \in Nodes |->
                           IF infection_state'[n] = "recovered" THEN ROne
                           ELSE immune_level[n]]
    /\ UNCHANGED <<config, edges, vaccine_effectiveness, contact_chance, run_day>>
    /\ UNCHANGED harness_vars

\* step() called by a user of the Simulation API, outside run()
Step ==
    /\ run_day = 0
    /\ step
    /\ UNCHANGED <<config, edges, immune_level, vaccine_effectiveness,
                   contact_chance, run_day>>
    /\ UNCHANGED harness_vars

\* run() is called: the loop starts with day = 1
RunBegin ==
    /\ run_day = 0
    /\ run_day' = 1
    /\ UNCHANGED <<config, edges, infection_state, days_infected, immune_level,
                   vaccine_effectiveness, current_day, results,
                   daily_superspreader_status, last_superspreader_status_update_day,
                   coin_flips, uniform_draws, contact_chance>>
    /\ UNCHANGED harness_vars

\* run() looping over range(1, number_of_days)
InRunRange_OneShort(day, cfg) == day >= 1 /\ day < cfg.number_of_days

\* run(): `day in range(1, number_of_days + 1)`
InRunRange(day, cfg) == day >= 1 /\ day < cfg.number_of_days + 1

\* run(): one iteration of `for day in range(1, number_of_days + 1): self.step()`
RunIterate ==
    /\ InRunRange(run_day, config)
    /\ step
    /\ run_day' = run_day + 1
    /\ UNCHANGED <<config, edges, immune_level, vaccine_effectiveness, contact_chance>>
    /\ UNCHANGED harness_vars

\* run(): the range is exhausted and run() returns
RunReturn ==
    /\ run_day >= 1
    /\ ~InRunRange(run_day, config)
    /\ run_day' = 0
    /\ UNCHANGED <<config, edges, infection_state, days_infected, immune_level,
                   vaccine_effectiveness, current_day, results,
                   daily_superspreader_status, last_superspreader_status_update_day,
                   coin_flips, uniform_draws, contact_chance>>
    /\ UNCHANGED harness_vars

\* The engine stepped day by day through its API.
Next == Step

Spec == Init /\ [][Next]_vars

\* The engine driven by run(), with step() calls between runs.
RunNext == Step \/ RunBegin \/ RunIterate \/ RunReturn

RunSpec == RunInit /\ [][RunNext]_vars

----------------------------------------------------------------------------
\* Tracker: superspreader.determine_daily_status called as a function of its
\* own, by a caller that keeps the returned pair and advances the day.

TrackerConfigs ==
    ConfigsOf({[type |-> "superspreader_dynamic", infection_parameters |-> ip] :
                  ip \in SuperspreaderParams}, {1}, {MaxDays})

TrackerInit ==
    /\ config \in TrackerConfigs
    /\ edges = {}
    /\ contact_chance = EmptyDict
    /\ HarnessIdle
    /\ infection_state \in [Nodes -> {"susceptible", "infected", "recovered"}]
    /\ immune_level = NoDefense[1]
    /\ vaccine_effectiveness = NoDefense[2]
    /\ days_infected = [n \in Nodes |-> NoAttr]
    /\ current_day = 0
    /\ results = InitialResults(infection_state)
    /\ daily_superspreader_status = EmptyDict
    /\ last_superspreader_status_update_day = -1
    /\ run_day = 0
    /\ coin_flips = 0
    /\ uniform_draws = 0

\* status, day = determine_daily_status(graph, config, current_day, day, status)
StatusLookup ==
    /\ \E determined \in
           {determine_daily_status(infection_state, config, current_day,
                                   last_superspreader_status_update_day,
                                   daily_superspreader_status, flips) :
               flips \in [{n \in Nodes : infection_state[n] = "infected"} -> Draws]} :
          /\ daily_superspreader_status' = determined[1]
          /\ last_superspreader_status_update_day' = determined[2]
          /\ coin_flips' = determined[3]
    /\ UNCHANGED <<config, edges, infection_state, days_infected, immune_level,
                   vaccine_effectiveness, current_day, results, run_day, uniform_draws,
                   contact_chance>>
    /\ UNCHANGED harness_vars

\* the caller moves on to the next day
AdvanceDay ==
    /\ current_day < config.number_of_days
    /\ current_day' = current_day + 1
    /\ UNCHANGED <<config, edges, infection_state, days_infected, immune_level,
                   vaccine_effectiveness, results, daily_superspreader_status,
                   last_superspreader_status_update_day, run_day, coin_flips,
                   uniform_draws, contact_chance>>
    /\ UNCHANGED harness_vars

TrackerNext == StatusLookup \/ AdvanceDay

TrackerSpec == TrackerInit /\ [][TrackerNext]_vars

----------------------------------------------------------------------------
\* Models: the three calculate_probability functions called on their own, on
\* a graph in any state.

ModelCallSettings ==
    ModelSettings
    \cup {[type |-> "independent", infection_parameters |-> ip] :
             ip \in {EmptyDict, [base_prob_transmission |-> <<7, 10>>]}}
    \cup {[type |-> "dependent",
           infection_parameters |-> [alpha |-> <<1, 1>>, beta |-> <<2, 1>>]],
          [type |-> "superspreader_dynamic", infection_parameters |-> EmptyDict]}

ModelCallConfigs ==
    {c \in ConfigsOf(ModelCallSettings, {1}, {MaxDays}) \cup DefendedConfigs :
        c.initial_binomial_probability = Half /\ RecoveryDuration(c) = 1}

ModelInit ==
    /\ config \in ModelCallConfigs
    /\ edges \in SUBSET AllPairs
    /\ contact_chance = [e \in edges |-> Half]
    /\ infection_state \in [Nodes -> {"susceptible", "infected", "recovered"}]
    /\ \E profile \in IF config \in DefendedConfigs
                       THEN {NoDefense} \cup DefenseProfiles ELSE {NoDefense} :
          /\ immune_level = profile[1]
          /\ vaccine_effectiveness = profile[2]
    /\ daily_superspreader_status \in
          IF ModelType(config) = "superspreader_dynamic"
          THEN [InfectedNodes(infection_state) -> BOOLEAN] ELSE {EmptyDict}
    /\ last_superspreader_status_update_day =
          IF ModelType(config) = "superspreader_dynamic" THEN 0 ELSE -1
    /\ days_infected = [n \in Nodes |-> NoAttr]
    /\ current_day = 0
    /\ results = InitialResults(infection_state)
    /\ run_day = 0
    /\ coin_flips = 0
    /\ uniform_draws = 0
    /\ HarnessIdle

\* a call leaves the graph, the engine and the rest of the process alone
ModelCallFrame ==
    UNCHANGED <<config, edges, infection_state, days_infected, immune_level,
                vaccine_effectiveness, current_day, results,
                daily_superspreader_status, last_superspreader_status_update_day,
                run_day, coin_flips, uniform_draws, contact_chance,
                other, np_random, py_random, batch, setup, metrics>>

\* independent.calculate_probability(graph, n, config), also what step() falls
\* back to for a model type it does not know
CallIndependent ==
    /\ ModelType(config) \notin {"dependent", "superspreader_dynamic"}
    /\ \E n \in Nodes :
          /\ infection_state[n] = "susceptible"
          /\ model_call' =
                [model |-> "independent", arithmetic |-> "exact", node |-> n,
                 probability |-> independent_calculate_probability(n, infection_state, config)]
    /\ ModelCallFrame

\* the same call, its float arithmetic carried out in binary64
CallIndependentBinary64 ==
    /\ ModelType(config) \notin {"dependent", "superspreader_dynamic"}
    /\ \E n \in Nodes :
          /\ infection_state[n] = "susceptible"
          /\ Binary64Covers(n, infection_state)
          /\ model_call' =
                [model |-> "independent", arithmetic |-> "binary64", node |-> n,
                 probability |->
                     independent_calculate_probability_binary64(n, infection_state, config)]
    /\ ModelCallFrame

\* dependent.calculate_probability(graph, n, config)
CallDependent ==
    /\ ModelType(config) = "dependent"
    /\ \E n \in Nodes :
          /\ infection_state[n] = "susceptible"
          /\ model_call' =
                [model |-> "dependent", arithmetic |-> "exact", node |-> n,
                 probability |-> dependent_calculate_probability(n, infection_state, config)]
    /\ ModelCallFrame

\* superspreader.calculate_probability(graph, n, config, daily_superspreader_status)
CallSuperspreader ==
    /\ ModelType(config) = "superspreader_dynamic"
    /\ \E n \in Nodes :
          /\ infection_state[n] = "susceptible"
          /\ model_call' =
                [model |-> "superspreader_dynamic", arithmetic |-> "exact", node |-> n,
                 probability |->
                     superspreader_calculate_probability(n, infection_state, config,
                                                         daily_superspreader_status)]
    /\ ModelCallFrame

ModelNext ==
    CallIndependent \/ CallIndependentBinary64 \/ CallDependent \/ CallSuperspreader

ModelSpec == ModelInit /\ [][ModelNext]_vars

----------------------------------------------------------------------------
\* Process: Simulation instances of one process, whose draws come from the two
\* module-global generators, np.random and random, seeded by the caller.

\* a seed fixes the whole sequence of draws of a generator
Seeds == [1 .. StreamPeriod -> Draws]

\* the generator right after seed(s)
Seeded(seed) == [seed |-> seed, position |-> 0]

\* the i-th draw the generator will return, i = 1 for the next one
NextDraw(gen, i) == gen.seed[((gen.position + i - 1) % Len(gen.seed)) + 1]

\* the generator after k draws
Advance(gen, k) == [gen EXCEPT !.position = @ + k]

\* the nodes of `nodes` are visited in the order of graph.nodes(), which is
\* the order of their ids, and each takes one draw: the draw of node n
NodeDraws(gen, nodes) ==
    [n \in nodes |-> NextDraw(gen, Cardinality({m \in nodes : m < n}) + 1)]

\* the fields of a Simulation instance
Instance(st, days, day, res, status, update_day) ==
    [infection_state |-> st, days_infected |-> days, current_day |-> day,
     results |-> res, daily_superspreader_status |-> status,
     last_superspreader_status_update_day |-> update_day]

\* __init__ with class-level tracker attributes: a new instance starts from
\* the last update day an earlier instance left behind
ConstructedInstance_SharedTracker(st) ==
    Instance(st, [n \in Nodes |-> NoAttr], 0, InitialResults(st), EmptyDict,
             last_superspreader_status_update_day)

\* Simulation.__init__ on a graph whose nodes are in the states `st`
ConstructedInstance(st) ==
    Instance(st, [n \in Nodes |-> NoAttr], 0, InitialResults(st), EmptyDict, -1)

\* the instance held in the variables of the engine
FirstInstance ==
    Instance(infection_state, days_infected, current_day, results,
             daily_superspreader_status, last_superspreader_status_update_day)

\* Simulation.step of the instance `sim`, the coin flips taken from the
\* generator py (random.random) and the infection draws from np
\* (np.random.rand): <<the instance, np, py>> after the step
SeededStep(sim, np, py) ==
    IF sim.current_day >= config.number_of_days THEN <<sim, np, py>>
    ELSE
      LET dynamic == ModelType(config) = "superspreader_dynamic"
          infected == InfectedNodes(sim.infection_state)
          susceptible_nodes == {n \in Nodes : sim.infection_state[n] = "susceptible"}
          determined ==
              IF dynamic
              THEN determine_daily_status(sim.infection_state, config, sim.current_day,
                                          sim.last_superspreader_status_update_day,
                                          sim.daily_superspreader_status,
                                          NodeDraws(py, infected))
              ELSE <<sim.daily_superspreader_status,
                     sim.last_superspreader_status_update_day, 0>>
          days1 == RecoveryPassDays(sim.infection_state, sim.days_infected)
          newly_recovered_today == NewlyRecovered(sim.infection_state, days1, config)
          prob == [n \in susceptible_nodes |->
                      prob_infection_today(n, sim.infection_state, config, determined[1])]
          newly_infected_today ==
              NewlyInfected(susceptible_nodes, prob, NodeDraws(np, susceptible_nodes))
          committed ==
              CommitStates(sim.infection_state, newly_infected_today,
                           newly_recovered_today)
      IN  <<Instance(committed, CommitDays(days1, newly_infected_today),
                     sim.current_day + 1,
                     record_stats(
                         [sim.results EXCEPT !.newly_infected_today =
                             Append(@, Cardinality(newly_infected_today))],
                         committed, sim.current_day + 1),
                     determined[1], determined[2]),
            Advance(np, Cardinality(susceptible_nodes)),
            Advance(py, determined[3])>>

\* the configurations of the seeded runs: one setting of each model
ProcessConfigs ==
    {c \in ConfigsOf(RunModelSettings, {1}, {1, MaxDays}) :
        /\ c.initial_binomial_probability = Half
        /\ ModelType(c) \in SupportedModelTypes}

\* np.random.seed(s); random.seed(s); Simulation(config)
ProcessInit ==
    /\ Construct(ProcessConfigs, {NoDefense})
    /\ \E seed \in Seeds :
          /\ np_random = Seeded(seed)
          /\ py_random = Seeded(seed)
    /\ model_call = NoCall
    /\ batch = NoBatch
    /\ setup = NoSetup
    /\ metrics = NoMetrics

\* what a step of either instance leaves alone
ProcessFrame ==
    UNCHANGED <<config, edges, immune_level, vaccine_effectiveness, contact_chance,
                run_day, model_call, batch, setup, metrics>>

\* step() of the first instance
FirstStep ==
    /\ \E stepped \in {SeededStep(FirstInstance, np_random, py_random)} :
          /\ infection_state' = stepped[1].infection_state
          /\ days_infected' = stepped[1].days_infected
          /\ current_day' = stepped[1].current_day
          /\ results' = stepped[1].results
          /\ daily_superspreader_status' = stepped[1].daily_superspreader_status
          /\ last_superspreader_status_update_day' =
                stepped[1].last_superspreader_status_update_day
          /\ np_random' = stepped[2]
          /\ py_random' = stepped[3]
          /\ uniform_draws' =
                IF stepped[1].current_day = current_day THEN uniform_draws
                ELSE stepped[2].position - np_random.position
          /\ coin_flips' =
                IF stepped[1].current_day = current_day
                   \/ ModelType(config) # "superspreader_dynamic"
                THEN coin_flips
                ELSE stepped[3].position - py_random.position
    /\ UNCHANGED other
    /\ ProcessFrame

\* step() of the second instance
OtherStep ==
    /\ other.constructed
    /\ \E stepped \in {SeededStep(other.sim, np_random, py_random)} :
          /\ other' = [other EXCEPT !.sim = stepped[1]]
          /\ np_random' = stepped[2]
          /\ py_random' = stepped[3]
    /\ UNCHANGED <<infection_state, days_infected, current_day, results,
                   daily_superspreader_status, last_superspreader_status_update_day,
                   uniform_draws, coin_flips>>
    /\ ProcessFrame

\* Rerun: the first run is over; the caller seeds the generators as before
\* the first construction and constructs and runs a second Simulation.  The
\* same seed and configuration yield the graph of the first construction,
\* which `other` holds from the start.
RerunInit ==
    /\ ProcessInit
    /\ other = [constructed |-> FALSE, sim |-> ConstructedInstance(infection_state),
                initial |-> infection_state]

\* np.random.seed(s); random.seed(s); Simulation(config), after the first run
SeedAndConstruct ==
    /\ ~other.constructed
    /\ current_day >= config.number_of_days
    /\ other' = [other EXCEPT !.constructed = TRUE,
                              !.sim = ConstructedInstance(other.initial)]
    /\ np_random' = Seeded(np_random.seed)
    /\ py_random' = Seeded(py_random.seed)
    /\ UNCHANGED <<infection_state, days_infected, current_day, results,
                   daily_superspreader_status, last_superspreader_status_update_day,
                   uniform_draws, coin_flips>>
    /\ ProcessFrame

RerunNext == FirstStep \/ SeedAndConstruct \/ OtherStep

RerunSpec == RerunInit /\ [][RerunNext]_vars

\* Pair: two Simulation instances constructed on equal graphs before either
\* runs, then stepped in any interleaving.
PairInit ==
    /\ ProcessInit
    /\ other = [constructed |-> TRUE, sim |-> ConstructedInstance(infection_state),
                initial |-> infection_state]

PairNext == FirstStep \/ OtherStep

PairSpec == PairInit /\ [][PairNext]_vars

----------------------------------------------------------------------------
\* Batch: main() working through a list of configuration files.

\* What a configuration file is, by what becomes of it:
\*   valid             loads, and Simulation(config) constructs
\*   missing           is not a file (load_config: FileNotFoundError)
\*   invalid_json      json.load fails (json.JSONDecodeError)
\*   schema_violation  jsonschema.validate fails, as for a model type or a
\*                     graph type outside the schema's enums
\*   bad_topology      passes the schema, and create_population_graph raises
\*                     ValueError (barabasi_albert with m < 1 or m >= n,
\*                     watts_strogatz with an odd k, k < 2 or k >= n)
FileKinds == {"valid", "missing", "invalid_json", "schema_violation", "bad_topology"}

\* the exceptions of load_config that the loop of main() catches
LoadConfigFails(kind) == kind \in {"missing", "invalid_json", "schema_violation"}

\* the ValueError of create_population_graph, raised inside Simulation(config)
ConstructionRaises(kind) == kind = "bad_topology"

\* main() is called with a list of files ("files") or with a directory whose
\* *.json files it lists ("directory"); a listed file can be gone by the
\* time it is loaded
BatchInit ==
    /\ Construct({c \in RunConfigs : /\ c.initial_binomial_probability = RZero
                                      /\ c.number_of_days = 1
                                      /\ ModelType(c) = "independent"},
                 {NoDefense})
    /\ edges = {}
    /\ model_call = NoCall
    /\ other = NoSimulation
    /\ np_random = Unseeded
    /\ py_random = Unseeded
    /\ setup = NoSetup
    /\ metrics = NoMetrics
    /\ \E len \in 1 .. MaxFiles, mode \in {"files", "directory"} :
          \E files \in [1 .. len -> FileKinds] :
             batch = [pc |-> "start", mode |-> mode, config_files |-> files,
                      index |-> 1, all_simulation_results |-> <<>>]

BatchFrame ==
    UNCHANGED <<config, edges, infection_state, days_infected, immune_level,
                vaccine_effectiveness, current_day, results,
                daily_superspreader_status, last_superspreader_status_update_day,
                run_day, coin_flips, uniform_draws, contact_chance,
                model_call, other, np_random, py_random, setup, metrics>>

\* _process_config_paths: a list of files must consist of existing .json
\* files, or it exits (and main returns)
ProcessConfigPaths ==
    /\ batch.pc = "start"
    /\ batch' = [batch EXCEPT !.pc =
                    IF batch.mode = "files"
                       /\ \E i \in DOMAIN batch.config_files :
                             batch.config_files[i] = "missing"
                    THEN "exited" ELSE "loop"]
    /\ BatchFrame

\* the loop body when load_config raises: log and continue
SkipConfig ==
    /\ batch.pc = "loop"
    /\ batch.index <= Len(batch.config_files)
    /\ LoadConfigFails(batch.config_files[batch.index])
    /\ batch' = [batch EXCEPT !.index = @ + 1]
    /\ BatchFrame

\* the loop body when the configuration loads and the simulation is
\* constructed and run: its results are appended
SimulateConfig ==
    /\ batch.pc = "loop"
    /\ batch.index <= Len(batch.config_files)
    /\ ~LoadConfigFails(batch.config_files[batch.index])
    /\ ~ConstructionRaises(batch.config_files[batch.index])
    /\ batch' = [batch EXCEPT !.index = @ + 1,
                              !.all_simulation_results = Append(@, batch.index)]
    /\ BatchFrame

\* the loop body when the configuration loads and Simulation(config) raises:
\* no handler is in place, the exception leaves main()
AbortOnConstruction ==
    /\ batch.pc = "loop"
    /\ batch.index <= Len(batch.config_files)
    /\ ~LoadConfigFails(batch.config_files[batch.index])
    /\ ConstructionRaises(batch.config_files[batch.index])
    /\ batch' = [batch EXCEPT !.pc = "raised"]
    /\ BatchFrame

\* the loop is over: plots and summary of the collected results
Report ==
    /\ batch.pc = "loop"
    /\ batch.index > Len(batch.config_files)
    /\ batch' = [batch EXCEPT !.pc = "reported"]
    /\ BatchFrame

BatchNext ==
    ProcessConfigPaths \/ SkipConfig \/ SimulateConfig \/ AbortOnConstruction \/ Report

BatchSpec == BatchInit /\ [][BatchNext]_vars

----------------------------------------------------------------------------
\* Setup: a configuration on its way from load_config (the schema) through
\* create_population_graph to a graph.

\* graph_type values explored: the three supported names, one of them also
\* in another case, and a name that is not supported
GraphTypeNames ==
    {"erdos_renyi", "barabasi_albert", "watts_strogatz", "Watts_Strogatz", "complete"}

\* the enum of the schema's graph_type
SchemaGraphTypes == {"erdos_renyi", "barabasi_albert", "watts_strogatz"}

\* str.lower() on the explored names
Lower(name) == IF name = "Watts_Strogatz" THEN "watts_strogatz" ELSE name

\* connections values explored: the multiples of 1/2 from -1/2 to
\* population_size + 1/2
ConnectionValues == {Rat(h, 2) : h \in -1 .. (2 * PopulationSize + 1)}

\* int(x) of a number: truncation towards zero
int(x) == IF x[1] >= 0 THEN x[1] \div x[2] ELSE -((-x[1]) \div x[2])

\* the configurations handed to load_config: graph_type given or left out
SetupConfigs ==
    LET base == CHOOSE c \in RunConfigs :
                    /\ ModelType(c) = "independent"
                    /\ c.number_of_days = 1
                    /\ c.initial_binomial_probability = Half
    IN  {base @@ ("connections" :> x) : x \in ConnectionValues}
        \cup {base @@ ("connections" :> x) @@ ("graph_type" :> t) :
                 x \in ConnectionValues, t \in GraphTypeNames}

\* jsonschema.validate on the explored configurations: connections is a
\* number with minimum 0.0 and no maximum, graph_type one of the enum
SchemaValid(cfg) ==
    /\ RLeq(RZero, cfg.connections)
    /\ "graph_type" \in DOMAIN cfg => cfg.graph_type \in SchemaGraphTypes

\* create_population_graph: graph_type, lower-cased, erdos_renyi by default
GraphType(cfg) == Lower(Get(cfg, "graph_type", "erdos_renyi"))

\* create_population_graph: the ValueError conditions on m and k
TopologyRaises(cfg) ==
    LET n == cfg.population_size
        m == int(cfg.connections)
        k == int(cfg.connections)
    IN  CASE GraphType(cfg) = "erdos_renyi" -> FALSE
          [] GraphType(cfg) = "barabasi_albert" -> m < 1 \/ m >= n
          [] GraphType(cfg) = "watts_strogatz" -> k % 2 # 0 \/ k >= n \/ k < 2
          [] OTHER -> TRUE

\* the edge sets the networkx generators can return on the nodes 0..n-1:
\*   erdos_renyi_graph(n, p)      no edge for p <= 0, every edge for p >= 1,
\*                                any edge set in between
\*   barabasi_albert_graph(n, m)  m * (n - m) edges
\*   watts_strogatz_graph(n, k, 0.1)  n * k / 2 edges (rewiring moves edges)
GeneratedEdges(cfg) ==
    LET n == cfg.population_size
        p == cfg.connections
        m == int(cfg.connections)
    IN  CASE GraphType(cfg) = "erdos_renyi" ->
                IF RLeq(p, RZero) THEN {{}}
                ELSE IF RLeq(ROne, p) THEN {AllPairs}
                ELSE SUBSET AllPairs
          [] GraphType(cfg) = "barabasi_albert" ->
                {E \in SUBSET AllPairs : Cardinality(E) = m * (n - m)}
          [] GraphType(cfg) = "watts_strogatz" ->
                {E \in SUBSET AllPairs : Cardinality(E) = (n * m) \div 2}

\* nothing is constructed yet: no graph, no Simulation
SetupInit ==
    /\ config \in SetupConfigs
    /\ setup = [pc |-> "start", validated |-> FALSE]
    /\ edges = {}
    /\ infection_state = EmptyDict
    /\ immune_level = EmptyDict
    /\ vaccine_effectiveness = EmptyDict
    /\ contact_chance = EmptyDict
    /\ days_infected = EmptyDict
    /\ current_day = 0
    /\ results = EmptyDict
    /\ daily_superspreader_status = EmptyDict
    /\ last_superspreader_status_update_day = -1
    /\ run_day = 0
    /\ coin_flips = 0
    /\ uniform_draws = 0
    /\ model_call = NoCall
    /\ other = NoSimulation
    /\ np_random = Unseeded
    /\ py_random = Unseeded
    /\ batch = NoBatch
    /\ metrics = NoMetrics

SetupFrame ==
    UNCHANGED <<config, days_infected, current_day, results,
                daily_superspreader_status, last_superspreader_status_update_day,
                run_day, coin_flips, uniform_draws, model_call, other,
                np_random, py_random, batch, metrics>>

\* load_config: the file exists and is JSON; the schema decides
LoadConfig ==
    /\ setup.pc = "start"
    /\ setup' = IF SchemaValid(config)
                THEN [pc |-> "loaded", validated |-> TRUE]
                ELSE [pc |-> "invalid", validated |-> FALSE]
    /\ UNCHANGED <<edges, infection_state, immune_level, vaccine_effectiveness,
                   contact_chance>>
    /\ SetupFrame

\* create_population_graph raises ValueError: no graph is returned
CreatePopulationGraphRaises ==
    /\ setup.pc \in {"start", "loaded"}
    /\ TopologyRaises(config)
    /\ setup' = [setup EXCEPT !.pc = "raised"]
    /\ UNCHANGED <<edges, infection_state, immune_level, vaccine_effectiveness,
                   contact_chance>>
    /\ SetupFrame

\* create_population_graph returns a graph with its node and edge attributes
CreatePopulationGraph ==
    /\ setup.pc \in {"start", "loaded"}
    /\ ~TopologyRaises(config)
    /\ setup' = [setup EXCEPT !.pc = "created"]
    /\ edges' \in GeneratedEdges(config)
    /\ infection_state' \in InitialInfectionStates(config)
    /\ \E profile \in {NoDefense} \cup DefenseProfiles :
          /\ immune_level' = profile[1]
          /\ vaccine_effectiveness' = profile[2]
    /\ contact_chance' = [e \in edges' |-> Half]
    /\ SetupFrame

SetupNext == LoadConfig \/ CreatePopulationGraphRaises \/ CreatePopulationGraph

SetupSpec == SetupInit /\ [][SetupNext]_vars

----------------------------------------------------------------------------
\* Summary: plotting.extract_summary_metrics on the results of a Simulation,
\* as main() calls it on get_results() once run() is over.

\* Series.sum()
RECURSIVE SeqSum(_)
SeqSum(seq) == IF seq = <<>> THEN 0 ELSE seq[1] + SeqSum(Tail(seq))

\* Series.max()
SeqMax(seq) == CHOOSE v \in {seq[i] : i \in DOMAIN seq} :
                  \A i \in DOMAIN seq : seq[i] <= v

\* df[df['infected'] == peak].index[0]: the first row attaining the peak,
\* rows being numbered from 0
FirstIndexOf(seq, v) ==
    (CHOOSE i \in DOMAIN seq : seq[i] = v /\ \A j \in 1 .. (i - 1) : seq[j] # v) - 1

\* total_ever_infected: the sum of the newly_infected_today column if the
\* frame has one, else initial population minus final susceptible count
TotalEverInfected(df) ==
    IF "newly_infected_today" \in DOMAIN df
    THEN SeqSum(df.newly_infected_today)
    ELSE (df.susceptible[1] + df.infected[1] + df.recovered[1])
            - df.susceptible[Len(df.susceptible)]

\* extract_summary_metrics(results_data, config); df is the DataFrame of
\* results_data, one column per key
extract_summary_metrics(df, cfg) ==
    LET population_size_from_config == Get(cfg, "population_size", 0)
    IN  IF \A column \in DOMAIN df : df[column] = <<>>
        THEN [population_size_cfg |-> population_size_from_config,
              peak_infected_count |-> 0,
              peak_infected_percentage |-> RZero,
              days_to_peak |-> 0,
              total_ever_infected |-> 0,
              final_susceptible_count |-> population_size_from_config]
        ELSE [population_size_cfg |-> population_size_from_config,
              peak_infected_count |-> SeqMax(df.infected),
              peak_infected_percentage |->
                  IF population_size_from_config > 0
                  THEN Rat(SeqMax(df.infected) * 100, population_size_from_config)
                  ELSE RZero,
              days_to_peak |-> FirstIndexOf(df.infected, SeqMax(df.infected)),
              total_ever_infected |-> TotalEverInfected(df),
              final_susceptible_count |-> df.susceptible[Len(df.susceptible)]]

\* the results handed over: all five lists, or the four of a producer that
\* keeps no newly_infected_today list
ResultColumns ==
    { {"day", "susceptible", "infected", "recovered", "newly_infected_today"},
      {"day", "susceptible", "infected", "recovered"} }

\* metrics = extract_summary_metrics(simulation.get_results(), config), the
\* run being over
ExtractSummaryMetrics ==
    /\ run_day = 0
    /\ current_day >= config.number_of_days
    /\ \E columns \in ResultColumns :
          metrics' = [computed |-> TRUE,
                      columns |-> columns,
                      rows |-> Len(results.day),
                      value |-> extract_summary_metrics(
                                    [c \in columns |-> results[c]], config)]
    /\ UNCHANGED <<config, edges, infection_state, days_infected, immune_level,
                   vaccine_effectiveness, current_day, results,
                   daily_superspreader_status, last_superspreader_status_update_day,
                   run_day, coin_flips, uniform_draws, contact_chance,
                   model_call, other, np_random, py_random, batch, setup>>

SummaryNext == RunNext \/ ExtractSummaryMetrics

SummarySpec == RunInit /\ [][SummaryNext]_vars

----------------------------------------------------------------------------
\* Properties.

Last(seq) == seq[Len(seq)]
InState(st, name) == {n \in Nodes : st[n] = name}
ResultKeys == {"day", "susceptible", "infected", "recovered", "newly_infected_today"}
\* a step() that ran a day (not the early return)
DayRan == current_day' = current_day + 1

\* C1: every recorded snapshot, day 0 included, has
\* susceptible + infected + recovered equal to population_size.
C1_PopulationConserved ==
    \A i \in DOMAIN results.day :
        results.susceptible[i] + results.infected[i] + results.recovered[i]
            = config.population_size

\* a last-day snapshot in which all three counts are positive
C1_Witness ==
    /\ current_day = config.number_of_days
    /\ Last(results.susceptible) > 0
    /\ Last(results.infected) > 0
    /\ Last(results.recovered) > 0

\* C2: in every step a susceptible node stays susceptible or becomes
\* infected, an infected node stays infected or becomes recovered, and a
\* recovered node stays recovered.
C2_MonotoneInfectionState ==
    [][\A n \in Nodes :
         /\ infection_state[n] = "susceptible"
              => infection_state'[n] \in {"susceptible", "infected"}
         /\ infection_state[n] = "infected"
              => infection_state'[n] \in {"infected", "recovered"}
         /\ infection_state[n] = "recovered" => infection_state'[n] = "recovered"]_vars

\* a recovered node next to a node that is susceptible while another node is
\* infected, with days still to run
C2_Witness ==
    /\ current_day >= 1
    /\ current_day < config.number_of_days
    /\ \E n, m, k \in Nodes :
          /\ infection_state[n] = "recovered"
          /\ infection_state[m] = "infected"
          /\ infection_state[k] = "susceptible"
          /\ {n, k} \in edges /\ {m, k} \in edges

\* C3: when the day-0 snapshot has no infected node, every snapshot has
\* infected = 0 and newly infected = 0.
C3_NoSpontaneousInfection ==
    results.infected[1] = 0 =>
        \A i \in DOMAIN results.day :
            results.infected[i] = 0 /\ results.newly_infected_today[i] = 0

\* initial_binomial_probability = 0, a connected pair of nodes, under the
\* dependent model (whose probability is positive for zero infected
\* neighbours), after all days have run
C3_Witness ==
    /\ REq(config.initial_binomial_probability, RZero)
    /\ ModelType(config) = "dependent"
    /\ "alpha" \notin DOMAIN InfectionParams(config)
    /\ edges # {}
    /\ current_day = config.number_of_days
    /\ Last(results.infected) = 0

\* C4: run() cannot stop early and cannot run on: while its loop variable is
\* within 1..number_of_days the loop goes on to the next iteration (whatever
\* the infected count; step() itself never blocks), every iteration taken has
\* run a day unless all days had run, the loop variable never passes
\* number_of_days + 1, and when it reaches number_of_days + 1 the loop is
\* over, current_day = number_of_days and each list holds
\* number_of_days + 1 entries.
C4_RunExactlyNumberOfDays ==
    LET n == config.number_of_days
    IN  /\ run_day \in 0 .. n + 1
        /\ (run_day >= 1 /\ run_day <= n) =>
              /\ InRunRange(run_day, config)
              /\ current_day >= run_day - 1
        /\ run_day = n + 1 =>
              /\ ~InRunRange(run_day, config)
              /\ current_day = n
              /\ \A key \in ResultKeys : Len(results[key]) = n + 1

\* run() about to return from a run that it started at day 0 and in which
\* the infected count reached zero before the last day
C4_Witness ==
    /\ run_day = config.number_of_days + 1
    /\ config.number_of_days = MaxDays
    /\ results.infected[1] > 0
    /\ results.infected[2] = 0
    /\ Len(results.day) = MaxDays + 1

\* C5: a node that is susceptible and has no infected neighbour when a day
\* starts is still susceptible after that day's commit.
C5_PrePassSnapshot ==
    [][DayRan =>
         \A n \in Nodes :
            (/\ infection_state[n] = "susceptible"
             /\ \A m \in Nodes : {n, m} \in edges => infection_state[m] # "infected")
            => infection_state'[n] = "susceptible"]_vars

\* after day 1: a susceptible node n whose neighbours were all susceptible at
\* the start of the day, one of them newly infected during the day, under a
\* model that infects any node with an infected neighbour
C5_Witness ==
    /\ current_day = 1
    /\ ModelType(config) = "independent"
    /\ REq(Get(InfectionParams(config), "base_prob_transmission", RZero), ROne)
    /\ immune_level = NoDefense[1] /\ vaccine_effectiveness = NoDefense[2]
    /\ \E n \in Nodes :
          /\ infection_state[n] = "susceptible"
          /\ \A m \in neighbors(n) :
                \/ infection_state[m] = "susceptible"
                \/ infection_state[m] = "infected" /\ days_infected[m] = 0
          /\ \E m \in neighbors(n) :
                infection_state[m] = "infected" /\ days_infected[m] = 0

\* C6 (as claimed): with a model type outside the three supported ones no
\* simulated day ever runs.
C6_UnknownModelFailsFast ==
    ModelType(config) \notin SupportedModelTypes => current_day = 0

\* C7: a status lookup made with current_day equal to the last update day
\* returns the existing map and the same day, and flips no coin.
C7_LookupIdempotentWithinDay ==
    [][(current_day' = current_day
        /\ last_superspreader_status_update_day = current_day)
       => /\ daily_superspreader_status' = daily_superspreader_status
          /\ last_superspreader_status_update_day' = last_superspreader_status_update_day
          /\ coin_flips' = 0]_<<daily_superspreader_status,
                                 last_superspreader_status_update_day, coin_flips>>

\* a fresh map for the current day, with an infected node flagged and coin
\* flips that can come out either way
C7_Witness ==
    /\ last_superspreader_status_update_day = current_day
    /\ current_day >= 1
    /\ REq(InfectionParams(config).p_becomes_superspreader, Half)
    /\ coin_flips >= 2
    /\ \E n \in DOMAIN daily_superspreader_status : daily_superspreader_status[n]

\* C8: in every step of a superspreader_dynamic run the map is stale when the
\* step starts and is recomputed for that day: afterwards it has one boolean
\* entry for each node infected when the step started and no other entry,
\* and one coin was flipped per such node.
C8_OneRollPerInfectedPerDay ==
    [][(DayRan /\ ModelType(config) = "superspreader_dynamic")
       => /\ last_superspreader_status_update_day # current_day
          /\ last_superspreader_status_update_day' = current_day
          /\ DOMAIN daily_superspreader_status' = InState(infection_state, "infected")
          /\ \A n \in DOMAIN daily_superspreader_status' :
                daily_superspreader_status'[n] \in BOOLEAN
          /\ coin_flips' = Cardinality(InState(infection_state, "infected"))]_vars

\* after the second day of a superspreader_dynamic run: a map with two
\* entries, one flagged and one not
C8_Witness ==
    /\ ModelType(config) = "superspreader_dynamic"
    /\ current_day >= 2
    /\ last_superspreader_status_update_day = current_day - 1
    /\ \E n, m \in DOMAIN daily_superspreader_status :
          daily_superspreader_status[n] /\ ~daily_superspreader_status[m]

\* C9: the results hold one snapshot after construction, whose newly-infected
\* count is 0; position i of the day list holds i - 1; a step that runs a day
\* appends one entry to each list and any step leaves the earlier entries as
\* they were.
C9_ResultsAppendOnly ==
    /\ [](current_day = 0 => \A key \in ResultKeys : Len(results[key]) = 1)
    /\ [](results.newly_infected_today[1] = 0)
    /\ [](\A i \in DOMAIN results.day : results.day[i] = i - 1)
    /\ [][\A key \in ResultKeys :
            /\ Len(results'[key]) = Len(results[key]) + (IF DayRan THEN 1 ELSE 0)
            /\ SubSeq(results'[key], 1, Len(results[key])) = results[key]]_vars

\* all days have run and the last snapshot differs from the first
C9_Witness ==
    /\ current_day = config.number_of_days
    /\ Len(results.day) = MaxDays + 1
    /\ Last(results.susceptible) < results.susceptible[1]
    /\ Last(results.recovered) > 0

\* C10: the newly-infected count a step records is the number of nodes the
\* step moved from susceptible to infected, which is the drop of the
\* susceptible count from the previous snapshot; each of these nodes has
\* days_infected = 0 after the commit.
C10_NewlyInfectedCount ==
    [][DayRan =>
         LET moved == {n \in Nodes : infection_state[n] = "susceptible"
                                     /\ infection_state'[n] = "infected"}
             d == Len(results'.day)
         IN  /\ results'.newly_infected_today[d] = Cardinality(moved)
             /\ results'.newly_infected_today[d]
                  = results'.susceptible[d - 1] - results'.susceptible[d]
             /\ \A n \in moved : days_infected'[n] = 0]_vars

\* a day on which two nodes were newly infected while another node recovered
C10_Witness ==
    /\ current_day >= 1
    /\ Last(results.newly_infected_today) >= 2
    /\ Cardinality({n \in Nodes : infection_state[n] = "infected"
                                  /\ days_infected[n] = 0}) >= 2
    /\ \E n \in Nodes : infection_state[n] = "recovered"

\* C11: a step leaves the node set, the edge set, every node's immune_level
\* and vaccine_effectiveness and every edge's contact_chance as they were.
C11_StepFrame ==
    [][/\ DOMAIN infection_state' = DOMAIN infection_state
       /\ DOMAIN days_infected' = DOMAIN days_infected
       /\ edges' = edges
       /\ immune_level' = immune_level
       /\ vaccine_effectiveness' = vaccine_effectiveness
       /\ contact_chance' = contact_chance]_vars

\* after a day on which a defended node was infected over an edge, on a graph
\* that also holds a recovered node
C11_Witness ==
    /\ current_day >= 1
    /\ \E n, m \in Nodes :
          /\ {n, m} \in edges
          /\ contact_chance[{n, m}] = Half
          /\ infection_state[n] = "infected" /\ days_infected[n] = 0
          /\ immune_level[n] = Half /\ vaccine_effectiveness[n] = Half
          /\ infection_state[m] = "recovered"

\* the last call was to `model`, carried out in `arithmetic`
Called(model, arithmetic) ==
    model_call.model = model /\ model_call.arithmetic = arithmetic
\* the number of infected neighbours of the node the last call was about
CalledK == Cardinality(InfectedNeighbors(model_call.node, infection_state))
\* the node the last call was about has immune_level = vaccine_effectiveness = 0
CalledUndefended ==
    /\ immune_level[model_call.node] = RZero
    /\ vaccine_effectiveness[model_call.node] = RZero
\* base_prob_transmission as the float the model reads
CalledBase == Binary64(Get(InfectionParams(config), "base_prob_transmission", <<1, 20>>))
\* a - b in units of 2^-60, for binary64 values less than 2^-30 apart
B64Diff(a, b) == (a[1] - b[1]) * Limb + (a[2] - b[2])

\* C12 (as claimed): the independent model returns exactly 0 for a node with
\* no infected neighbour, and exactly base_prob_transmission for a node with
\* one infected neighbour and immune_level = vaccine_effectiveness = 0.
C12_IndependentExact ==
    Called("independent", "binary64") =>
        /\ CalledK = 0 => model_call.probability = B64Zero
        /\ (CalledK = 1 /\ CalledUndefended) => model_call.probability = CalledBase

\* C12 (amended): exactly 0 with no infected neighbour; with one infected
\* neighbour and no defenses, 1.0 - (1.0 - base_prob_transmission) as floats:
\* base_prob_transmission itself when it is at least 0.5, and otherwise a
\* multiple of 2^-53 at most 2^-54 away from it.
C12_IndependentRounded ==
    Called("independent", "binary64") =>
        /\ CalledK = 0 => model_call.probability = B64Zero
        /\ (CalledK = 1 /\ CalledUndefended) =>
              LET grid == 2 ^ (60 - SignificandBits)
                  diff == B64Diff(model_call.probability, CalledBase)
              IN  /\ model_call.probability[2] % grid = 0
                  /\ 2 * Abs(diff) <= grid
                  /\ CalledBase[1] >= Limb \div 2 => diff = 0

\* a call under the default base_prob_transmission (0.05) for an undefended
\* node with one infected neighbour, returning a float other than 0.05
C12_Witness ==
    /\ Called("independent", "binary64")
    /\ InfectionParams(config) = EmptyDict
    /\ CalledK = 1 /\ CalledUndefended
    /\ model_call.probability # CalledBase

\* (1 - immune_level) * (1 - vaccine_effectiveness) of the node the last call
\* was about
CalledDefenseFactor ==
    RMul(RSub(ROne, immune_level[model_call.node]),
         RSub(ROne, vaccine_effectiveness[model_call.node]))
\* the infected neighbours, flagged as superspreaders, of that node
CalledFlagged ==
    {m \in InfectedNeighbors(model_call.node, infection_state) :
        Get(daily_superspreader_status, m, FALSE)}
\* normal_base_infectivity * superspreader_multiplier of the configuration
SuperspreaderInfectivity ==
    RMul(Get(InfectionParams(config), "normal_base_infectivity", <<1, 20>>),
         Get(InfectionParams(config), "superspreader_multiplier", <<10, 1>>))

\* C13: every model returns a probability in [0,1]; a flagged infected
\* neighbour whose infectivity times the node's defense factor is 1 or more
\* counts as a certain infection (its term is clamped to 1), whatever the
\* other neighbours contribute.
C13_ProbabilityInUnitInterval ==
    /\ model_call.model # "none" /\ model_call.arithmetic = "exact" =>
          RLeq(RZero, model_call.probability) /\ RLeq(model_call.probability, ROne)
    /\ model_call.model # "none" /\ model_call.arithmetic = "binary64" =>
          /\ model_call.probability[1] \in 0 .. Limb
          /\ model_call.probability[2] \in 0 .. (Limb - 1)
          /\ model_call.probability[1] = Limb => model_call.probability[2] = 0
    /\ (/\ Called("superspreader_dynamic", "exact")
        /\ CalledFlagged # {}
        /\ RLeq(ROne, RMul(SuperspreaderInfectivity, CalledDefenseFactor)))
       => REq(model_call.probability, ROne)

\* a call for a node with two flagged superspreader neighbours whose
\* infectivity, 0.5 * 10, exceeds 1
C13_Witness ==
    /\ Called("superspreader_dynamic", "exact")
    /\ Cardinality(CalledFlagged) >= 2
    /\ RLess(ROne, SuperspreaderInfectivity)
    /\ CalledDefenseFactor = ROne
    /\ REq(model_call.probability, ROne)

\* exponent_val of the dependent model for the node the last call was about
CalledExponent ==
    RSub(Get(InfectionParams(config), "beta", <<3, 1>>),
         RMul(Get(InfectionParams(config), "alpha", <<1, 10>>), <<CalledK, 1>>))

\* C14: a call of the dependent model returns a value of [0,1] whatever
\* alpha * k and beta are: 0 when the exponent is so large that math.exp
\* overflows, and the node's defense factor (base hazard 1) when the exponent
\* is as far below zero.
C14_SigmoidSaturates ==
    Called("dependent", "exact") =>
        /\ RLeq(RZero, model_call.probability) /\ RLeq(model_call.probability, ROne)
        /\ Tenths(CalledExponent) > ExpOverflowTenths =>
              REq(model_call.probability, RZero)
        /\ Tenths(CalledExponent) < -ExpOverflowTenths =>
              REq(model_call.probability, CalledDefenseFactor)

\* a call for an undefended node with an infected neighbour under beta = 1000,
\* for which math.exp(1000) overflows
C14_Witness ==
    /\ Called("dependent", "exact")
    /\ Tenths(CalledExponent) > ExpOverflowTenths
    /\ CalledK >= 1
    /\ CalledDefenseFactor = ROne
    /\ REq(model_call.probability, RZero)

\* two calls of the dependent model in a row, under positive alpha and beta,
\* the second for a node with more infected neighbours and the same defenses
MoreInfectedNeighbors ==
    /\ Called("dependent", "exact")
    /\ model_call'.model = "dependent"
    /\ RLess(RZero, Get(InfectionParams(config), "alpha", <<1, 10>>))
    /\ RLess(RZero, Get(InfectionParams(config), "beta", <<3, 1>>))
    /\ Cardinality(InfectedNeighbors(model_call'.node, infection_state)) > CalledK
    /\ immune_level[model_call'.node] = immune_level[model_call.node]
    /\ vaccine_effectiveness[model_call'.node] = vaccine_effectiveness[model_call.node]

\* C15 (as claimed): for positive alpha and beta the dependent model's hazard
\* decreases (at the least, does not grow) as the number of infected
\* neighbours grows, the node's defenses being the same.
C15_HazardDecreasesInK ==
    [][MoreInfectedNeighbors =>
         RLeq(model_call'.probability, model_call.probability)]_vars

\* C15 (amended): for positive alpha and beta the hazard grows (at the least,
\* does not decrease) as the number of infected neighbours grows.
C15_HazardIncreasesInK ==
    [][MoreInfectedNeighbors =>
         RLeq(model_call.probability, model_call'.probability)]_vars

\* a call under the default alpha and beta for an undefended node with an
\* infected neighbour, on a graph that also has a susceptible node with
\* fewer infected neighbours; the value is above the hazard at k = 0
C15_Witness ==
    /\ Called("dependent", "exact")
    /\ InfectionParams(config) = EmptyDict
    /\ CalledK >= 1
    /\ CalledDefenseFactor = ROne
    /\ \E m \in Nodes :
          /\ infection_state[m] = "susceptible"
          /\ Cardinality(InfectedNeighbors(m, infection_state)) < CalledK
          /\ immune_level[m] = RZero /\ vaccine_effectiveness[m] = RZero
    /\ RLess(Sigmoid(<<3, 1>>), model_call.probability)

\* the configuration with every default the documentation names written out
\* where infection_parameters leaves the parameter out
WithDocumentedDefaults(cfg) ==
    LET given == InfectionParams(cfg)
    IN  [cfg EXCEPT !.infection_model.infection_parameters =
            [alpha |-> Get(given, "alpha", <<1, 10>>),
             beta |-> Get(given, "beta", <<3, 10>>),
             base_prob_transmission |-> Get(given, "base_prob_transmission", <<1, 20>>),
             normal_base_infectivity |-> Get(given, "normal_base_infectivity", <<1, 20>>),
             superspreader_multiplier |-> Get(given, "superspreader_multiplier", <<10, 1>>),
             p_becomes_superspreader |-> Get(given, "p_becomes_superspreader", <<1, 100>>)]]

\* C16 (as claimed): a parameter left out of infection_parameters acts as its
\* documented default: alpha 0.1, beta 0.3, base_prob_transmission 0.05,
\* normal_base_infectivity 0.05, superspreader_multiplier 10,
\* p_becomes_superspreader 0.01; recovery_duration left out acts as 14.
C16_DocumentedDefaults ==
    /\ Called("independent", "exact") =>
          model_call.probability =
              independent_calculate_probability(model_call.node, infection_state,
                                                WithDocumentedDefaults(config))
    /\ Called("dependent", "exact") =>
          model_call.probability =
              dependent_calculate_probability(model_call.node, infection_state,
                                              WithDocumentedDefaults(config))
    /\ Called("superspreader_dynamic", "exact") =>
          /\ model_call.probability =
                superspreader_calculate_probability(model_call.node, infection_state,
                                                    WithDocumentedDefaults(config),
                                                    daily_superspreader_status)
          /\ \A flips \in [InfectedNodes(infection_state) -> Draws] :
                determine_daily_status(infection_state, config, 1, 0, EmptyDict, flips)
                  = determine_daily_status(infection_state, WithDocumentedDefaults(config),
                                           1, 0, EmptyDict, flips)
    /\ RecoveryDuration([infection_model |-> [type |-> ModelType(config)]]) = 14

\* p + sign * q over the least common denominator
RAddSigned(p, sign, q) ==
    LET d == (p[2] \div GCD(p[2], q[2])) * q[2]
    IN  Rat(p[1] * (d \div p[2]) + sign * q[1] * (d \div q[2]), d)

\* the probability that the infected neighbour m alone infects the node the
\* last call was about
ContactProbability(m) ==
    LET normal_base_infectivity ==
            Get(InfectionParams(config), "normal_base_infectivity", <<1, 20>>)
    IN  Clamp01(RMul(IF m \in CalledFlagged THEN SuperspreaderInfectivity
                     ELSE normal_base_infectivity,
                     CalledDefenseFactor))

\* the product of ContactProbability over the set S
RECURSIVE ContactProduct(_)
ContactProduct(S) ==
    IF S = {} THEN ROne
    ELSE LET m == CHOOSE x \in S : TRUE
         IN  RMul(ContactProbability(m), ContactProduct(S \ {m}))

\* the probability that at least one neighbour of `sets`' union infects, by
\* inclusion and exclusion: the sum over the sets S of (-1)^(|S|+1) times
\* the product over S
RECURSIVE InclusionExclusion(_)
InclusionExclusion(sets) ==
    IF sets = {} THEN RZero
    ELSE LET S == CHOOSE x \in sets : TRUE
             rest == InclusionExclusion(sets \ {S})
         IN  RAddSigned(rest, IF Cardinality(S) % 2 = 1 THEN 1 ELSE -1,
                        ContactProduct(S))

\* C17: the superspreader model returns the probability that at least one
\* infected neighbour infects the node, each neighbour acting independently
\* with normal_base_infectivity * superspreader_multiplier when it is flagged
\* in the status map and normal_base_infectivity when it is not (times the
\* node's defense factor, clamped to [0,1]).
C17_SuperspreaderComposition ==
    Called("superspreader_dynamic", "exact") =>
        model_call.probability =
            InclusionExclusion(
                (SUBSET InfectedNeighbors(model_call.node, infection_state)) \ {{}})

\* a call for an undefended node with a flagged and an unflagged infected
\* neighbour under infectivity 0.05 and multiplier 10:
\* 1 - (1 - 0.5)(1 - 0.05) = 21/40
C17_Witness ==
    /\ Called("superspreader_dynamic", "exact")
    /\ CalledK = 2
    /\ Cardinality(CalledFlagged) = 1
    /\ CalledDefenseFactor = ROne
    /\ model_call.probability = <<21, 40>>

\* C18 (as claimed): when main() is over, however it ended, every
\* configuration of the batch that loads and constructs has been simulated:
\* a failing configuration costs only its own run.
C18_BatchSurvivesFailure ==
    batch.pc \in {"exited", "raised", "reported"} =>
        \A i \in DOMAIN batch.config_files :
            batch.config_files[i] = "valid" =>
                \E j \in DOMAIN batch.all_simulation_results :
                    batch.all_simulation_results[j] = i

OtherDayRan ==
    /\ other.constructed
    /\ other'.constructed
    /\ other'.sim.current_day = other.sim.current_day + 1

\* the instance after d days of a run made alone, from the graph both
\* instances were constructed on and the generators as they were seeded
RECURSIVE AloneRun(_)
AloneRun(d) ==
    IF d = 0
    THEN <<ConstructedInstance(other.initial), Seeded(np_random.seed),
           Seeded(py_random.seed)>>
    ELSE LET before == AloneRun(d - 1)
         IN  SeededStep(before[1], before[2], before[3])

\* the snapshots of both instances are those of a run made alone
SnapshotsAsAlone ==
    /\ results = AloneRun(current_day)[1].results
    /\ other.sim.results = AloneRun(other.sim.current_day)[1].results

\* a step of the second instance changes nothing the first one reads
OtherStepLeavesFirstAlone ==
    OtherDayRan =>
        /\ UNCHANGED <<edges, infection_state, days_infected, immune_level,
                       vaccine_effectiveness, contact_chance>>
        /\ UNCHANGED <<results, daily_superspreader_status,
                       last_superspreader_status_update_day>>
        /\ UNCHANGED <<np_random, py_random>>

\* C20 (as claimed): a step of one Simulation changes nothing another
\* Simulation of the process reads (its graph, its results, its status map,
\* the generators its draws come from), and the snapshots of each are those
\* of a run made alone, whatever the interleaving of their steps.
C20_RunsShareNothing ==
    /\ []SnapshotsAsAlone
    /\ [][OtherStepLeavesFirstAlone]_vars

----------------------------------------------------------------------------
\* the connections value is a whole number
IsInteger(x) == x[2] = 1

\* the configuration names a topology and a parameter the topology rules
\* out: m not an integer with 1 <= m < n, k not an even integer with
\* 2 <= k < n, or a name that is none of the three (names compared as the
\* code compares them, without regard to case)
TopologyRuledOut(cfg) ==
    LET n == cfg.population_size
        x == cfg.connections
        name == GraphType(cfg)
    IN  \/ name \notin SchemaGraphTypes
        \/ name = "barabasi_albert"
              /\ ~(IsInteger(x) /\ 1 <= x[1] /\ x[1] < n)
        \/ name = "watts_strogatz"
              /\ ~(IsInteger(x) /\ x[1] % 2 = 0 /\ 2 <= x[1] /\ x[1] < n)

\* C21 (as claimed): create_population_graph never returns a graph for a
\* Barabasi-Albert m that is not an integer with 1 <= m < n, a Watts-Strogatz
\* k that is not an even integer with 2 <= k < n, or a topology name outside
\* the three supported ones.
C21_RuledOutTopologyRaises ==
    TopologyRuledOut(config) => setup.pc # "created"

\* C22 (as claimed): a configuration of the random topology whose connections
\* lie outside [0,1] never gets a graph: load_config or
\* create_population_graph rejects it.
C22_EdgeProbabilityValidated ==
    (/\ setup.pc = "created"
     /\ setup.validated
     /\ GraphType(config) = "erdos_renyi")
        => (RLeq(RZero, config.connections) /\ RLeq(config.connections, ROne))

----------------------------------------------------------------------------
\* the metrics were computed from the results as they are now
MetricsCurrent == metrics.computed /\ metrics.rows = Len(results.day)

\* the nodes that were Infected at some time of the run: states only move
\* from susceptible to infected to recovered, so these are the nodes that
\* are not susceptible now
EverInfected == {n \in Nodes : infection_state[n] # "susceptible"}

\* C23 (as claimed): total_ever_infected is the number of nodes ever Infected
\* during the run, the initially infected included, whichever branch of
\* extract_summary_metrics computed it.
C23_TotalEverInfected ==
    MetricsCurrent =>
        metrics.value.total_ever_infected = Cardinality(EverInfected)

----------------------------------------------------------------------------
\* the nodes whose recovery falls due in the step about to run
RecoveringToday ==
    NewlyRecovered(infection_state,
                   RecoveryPassDays(infection_state, days_infected), config)

\* the independent model with certain transmission: a draw cannot miss
CertainTransmission ==
    /\ ModelType(config) = "independent"
    /\ Get(InfectionParams(config), "base_prob_transmission", <<1, 20>>) = ROne

\* C24: a node whose recovery falls due on day D still counts as an Infected
\* neighbour in day D's infection pass and is Recovered in day D's snapshot:
\* under certain transmission an undefended susceptible neighbour of it is
\* infected that day, and the recovered count of the day includes it.
C24_RecoveryDeferredToCommit ==
    [][DayRan =>
         \A r \in RecoveringToday :
            /\ infection_state[r] = "infected"
            /\ infection_state'[r] = "recovered"
            /\ Last(results'.recovered)
                  = Last(results.recovered) + Cardinality(RecoveringToday)
            /\ \A n \in neighbors(r) :
                  (/\ infection_state[n] = "susceptible"
                   /\ CertainTransmission
                   /\ immune_level[n] = RZero
                   /\ vaccine_effectiveness[n] = RZero)
                      => infection_state'[n] = "infected"]_vars

\* a node was infected today although each of its neighbours that was
\* infected this morning has recovered today
C24_Witness ==
    /\ current_day >= 1
    /\ CertainTransmission
    /\ \E n \in Nodes :
          /\ infection_state[n] = "infected"
          /\ days_infected[n] = 0
          /\ neighbors(n) # {}
          /\ \A m \in neighbors(n) : infection_state[m] = "recovered"

----------------------------------------------------------------------------
\* the number of nodes first Infected in the snapshot of day j: the
\* initially infected for day 0, the new infections of the day after
FirstInfectedOn(j) ==
    IF j = 0 THEN results.infected[1] ELSE results.newly_infected_today[j + 1]

\* the number of nodes first Infected in the snapshots of days from..to
RECURSIVE FirstInfectedBetween(_, _)
FirstInfectedBetween(from, to) ==
    IF from > to THEN 0
    ELSE FirstInfectedOn(to) + FirstInfectedBetween(from, to - 1)

\* C25: every node is Infected for exactly recovery_duration consecutive
\* snapshots.  In the snapshot of day d the Infected nodes are those first
\* Infected in the days d - recovery_duration + 1 .. d and the Recovered ones
\* those first Infected up to day d - recovery_duration, so nobody is
\* Recovered before day recovery_duration; the counter of an Infected node
\* is below recovery_duration and that of a Recovered node equals it.
C25_InfectedForRecoveryDuration ==
    LET rd == RecoveryDuration(config)
    IN  /\ \A d \in 0 .. current_day :
              /\ results.recovered[d + 1] = FirstInfectedBetween(0, d - rd)
              /\ results.infected[d + 1]
                    = FirstInfectedBetween(IF d - rd + 1 > 0 THEN d - rd + 1 ELSE 0, d)
              /\ d < rd => results.recovered[d + 1] = 0
        /\ \A n \in Nodes :
              /\ infection_state[n] = "infected" =>
                    (IF days_infected[n] = NoAttr THEN 0 ELSE days_infected[n]) < rd
              /\ infection_state[n] = "recovered" => days_infected[n] = rd

\* with the longest recovery, nodes infected on day 1 are Recovered on day
\* 1 + recovery_duration, after the initially infected ones
C25_Witness ==
    /\ RecoveryDuration(config) = MaxRecovery
    /\ current_day >= 1 + MaxRecovery
    /\ results.infected[1] > 0
    /\ results.newly_infected_today[2] > 0
    /\ results.recovered[MaxRecovery + 1] = results.infected[1]
    /\ results.recovered[MaxRecovery + 2]
          = results.infected[1] + results.newly_infected_today[2]

----------------------------------------------------------------------------
\* C26: from each snapshot to the next the susceptible count does not rise
\* and the recovered count does not fall.
C26_MonotoneCounts ==
    \A i \in 1 .. (Len(results.day) - 1) :
        /\ results.susceptible[i + 1] <= results.susceptible[i]
        /\ results.recovered[i + 1] >= results.recovered[i]

\* a finished run in which the susceptible count fell and the recovered
\* count rose, on at least two different days
C26_Witness ==
    /\ current_day = config.number_of_days
    /\ run_day = 0
    /\ \E i, j \in 1 .. (Len(results.day) - 1) :
          /\ i # j
          /\ results.susceptible[i + 1] < results.susceptible[i]
          /\ results.recovered[i + 1] > results.recovered[i]
          /\ results.recovered[j + 1] > results.recovered[j]

----------------------------------------------------------------------------
\* immune_level or vaccine_effectiveness of the node is 1
FullyDefended(n) == immune_level[n] = ROne \/ vaccine_effectiveness[n] = ROne

\* C27: a susceptible node whose immune_level or vaccine_effectiveness is 1
\* has infection probability 0 under the model of the run, whatever the
\* states of its neighbours and the superspreader status, and is still
\* susceptible after the day, whatever is drawn.
C27_FullDefenseNeverInfected ==
    [][DayRan =>
         \A n \in Nodes :
            (infection_state[n] = "susceptible" /\ FullyDefended(n)) =>
                /\ ModelProbability(n, infection_state, config,
                                    daily_superspreader_status') = RZero
                /\ infection_state'[n] = "susceptible"]_vars

\* at the end of a superspreader run a fully defended node is still
\* susceptible, all its neighbours having been infected and recovered
C27_Witness ==
    /\ current_day = config.number_of_days
    /\ ModelType(config) = "superspreader_dynamic"
    /\ \E n \in Nodes :
          /\ FullyDefended(n)
          /\ infection_state[n] = "susceptible"
          /\ Cardinality(neighbors(n)) = PopulationSize - 1
          /\ \A m \in neighbors(n) : infection_state[m] = "recovered"

----------------------------------------------------------------------------
Susceptible == {n \in Nodes : infection_state[n] = "susceptible"}

\* the susceptible nodes with at least one infected neighbour
Exposed == {n \in Susceptible : InfectedNeighbors(n, infection_state) # {}}

\* C28 (as claimed): the uniform draws of a day are as many as the
\* susceptible nodes that have an infected neighbour.
C28_DrawsOnlyForExposed ==
    [][DayRan => uniform_draws' = Cardinality(Exposed)]_vars

\* C28 (amended): a uniform number is drawn once for every susceptible node,
\* with or without an infected neighbour, so the draws of a day are as many
\* as the nodes susceptible at its start; a node without an infected
\* neighbour is not infected by its draw.
C28_DrawsForEverySusceptible ==
    [][DayRan =>
         /\ uniform_draws' = Cardinality(Susceptible)
         /\ \A n \in Susceptible \ Exposed :
               infection_state'[n] = "susceptible"]_vars

\* the last day drew for two nodes: one without any neighbour, still
\* susceptible, and one that was infected
C28_Witness ==
    /\ current_day >= 1
    /\ uniform_draws = 2
    /\ Last(results.newly_infected_today) = 1
    /\ \E n \in Nodes : infection_state[n] = "susceptible" /\ neighbors(n) = {}

----------------------------------------------------------------------------
\* C29: once current_day has reached number_of_days, no step() and no run()
\* changes the node states, the counters, current_day, the superspreader
\* status or the result lists; the lists never hold more than
\* number_of_days + 1 snapshots.
C29_FinishedRunIsFrozen ==
    /\ [](\A key \in ResultKeys : Len(results[key]) <= config.number_of_days + 1)
    /\ [][current_day >= config.number_of_days =>
             UNCHANGED <<edges, infection_state, days_infected, immune_level,
                         vaccine_effectiveness, current_day, results,
                         daily_superspreader_status,
                         last_superspreader_status_update_day>>]_vars

\* a run() is looping over a Simulation that had already reached its last
\* day, with nodes still infected that one more day would see recover
C29_Witness ==
    /\ config.number_of_days = MaxDays - 1
    /\ current_day = config.number_of_days
    /\ run_day > 1
    /\ run_day <= config.number_of_days
    /\ Len(results.day) = config.number_of_days + 1
    /\ Last(results.infected) > 0

----------------------------------------------------------------------------
\* C30: after construction and after every step the five result lists have
\* current_day + 1 entries each, and entry d of the day list is d.
C30_ResultListsAligned ==
    /\ DOMAIN results = ResultKeys
    /\ \A key \in ResultKeys : Len(results[key]) = current_day + 1
    /\ \A d \in 0 .. current_day : results.day[d + 1] = d

\* the last day of a run is recorded, with infections on an earlier day
C30_Witness ==
    /\ current_day = MaxDays
    /\ Len(results.newly_infected_today) = MaxDays + 1
    /\ results.newly_infected_today[2] > 0
    /\ Last(results.recovered) > 0

----------------------------------------------------------------------------
\* the status map with every missing node entered as a superspreader: a
\* lookup that falls back on its default gives another answer on it
DefaultsFlagged(status) ==
    [m \in Nodes |-> IF m \in DOMAIN status THEN status[m] ELSE TRUE]

\* C31: in a day of a superspreader_dynamic run the status map is computed
\* anew before the infection pass, and every infected neighbour of a
\* susceptible node has an entry in it: the default of the lookup is never
\* used (entering the missing nodes as superspreaders changes no
\* probability) and no entry of an earlier day is read.
C31_LookupsHitTodaysMap ==
    [][(DayRan /\ ModelType(config) = "superspreader_dynamic") =>
         /\ last_superspreader_status_update_day # current_day
         /\ last_superspreader_status_update_day' = current_day
         /\ \A n \in Nodes :
               infection_state[n] = "susceptible" =>
                  /\ InfectedNeighbors(n, infection_state)
                        \subseteq DOMAIN daily_superspreader_status'
                  /\ superspreader_calculate_probability(
                         n, infection_state, config, daily_superspreader_status')
                       = superspreader_calculate_probability(
                            n, infection_state, config,
                            DefaultsFlagged(daily_superspreader_status'))]_vars

\* the map of the last day has an entry for a node that was infected during
\* the run, which has a neighbour that was susceptible when the day started;
\* the multiplier makes a flagged neighbour count
C31_Witness ==
    /\ ModelType(config) = "superspreader_dynamic"
    /\ current_day >= 2
    /\ last_superspreader_status_update_day = current_day - 1
    /\ Get(InfectionParams(config), "superspreader_multiplier", <<10, 1>>) # ROne
    /\ \E m \in DOMAIN daily_superspreader_status :
          /\ days_infected[m] # NoAttr
          /\ \E n \in neighbors(m) :
                \/ infection_state[n] = "susceptible"
                \/ infection_state[n] = "infected" /\ days_infected[n] = 0

----------------------------------------------------------------------------
\* C32: on every day d >= 1 the infected count is that of the day before,
\* plus the new infections of the day, minus the recoveries of the day; a
\* node newly infected in a step is not among those recovering in it, so no
\* node goes from susceptible to recovered in one step.
C32_InfectedBalance ==
    /\ [](\A i \in 2 .. Len(results.day) :
             results.infected[i]
                = results.infected[i - 1] + results.newly_infected_today[i]
                    - (results.recovered[i] - results.recovered[i - 1]))
    /\ [][DayRan =>
             /\ RecoveringToday \subseteq InState(infection_state, "infected")
             /\ \A n \in Nodes :
                   infection_state[n] = "susceptible"
                      => infection_state'[n] # "recovered"]_vars

\* the last day had both new infections and recoveries
C32_Witness ==
    /\ current_day >= 2
    /\ Last(results.newly_infected_today) > 0
    /\ Last(results.recovered) > results.recovered[Len(results.recovered) - 1]
    /\ Last(results.infected) # results.infected[Len(results.infected) - 1]

----------------------------------------------------------------------------
\* data.get('days_infected', 0)
DaysInfected(n) == IF days_infected[n] = NoAttr THEN 0 ELSE days_infected[n]

\* C33: after every commit the counter of an infected node, 0 when absent,
\* lies in 0 .. recovery_duration - 1; no step changes the counter of a node
\* that is recovered.
C33_CounterRange ==
    /\ [](\A n \in Nodes :
             infection_state[n] = "infected" =>
                (DaysInfected(n) >= 0 /\ DaysInfected(n) <= RecoveryDuration(config) - 1))
    /\ [][\A n \in Nodes :
             infection_state[n] = "recovered" =>
                days_infected'[n] = days_infected[n]]_vars

\* with the longest recovery: an infected node on its last day, and a node
\* that had recovered before the last step
C33_Witness ==
    /\ RecoveryDuration(config) = MaxRecovery
    /\ current_day >= 2
    /\ results.recovered[Len(results.recovered) - 1] >= 1
    /\ \E n \in Nodes :
          infection_state[n] = "recovered" /\ days_infected[n] = MaxRecovery
    /\ \E m \in Nodes :
          infection_state[m] = "infected" /\ days_infected[m] = MaxRecovery - 1

----------------------------------------------------------------------------
\* the configuration of the independent model whose base_prob_transmission
\* is the normal_base_infectivity of cfg
AsIndependent(cfg) ==
    [cfg EXCEPT !.infection_model =
        [type |-> "independent",
         recovery_duration |-> RecoveryDuration(cfg),
         infection_parameters |->
             [base_prob_transmission |->
                 Get(InfectionParams(cfg), "normal_base_infectivity", <<1, 20>>)]]]

\* the graph with the node n susceptible and the other nodes in any states
NeighbourhoodsOf(n) ==
    {[m \in Nodes |-> IF m = n THEN "susceptible" ELSE f[m]] :
        f \in [Nodes \ {n} -> {"susceptible", "infected", "recovered"}]}

\* no infected neighbour of n is flagged in the status map, or the
\* multiplier is 1
NoneAmplified(n, st) ==
    \/ Get(InfectionParams(config), "superspreader_multiplier", <<10, 1>>) = ROne
    \/ \A m \in InfectedNeighbors(n, st) : ~Get(daily_superspreader_status, m, FALSE)

\* the probability the called model gives the node n on the graph in states st
CalledModelProbability(n, st) ==
    IF model_call.model = "superspreader_dynamic"
    THEN superspreader_calculate_probability(n, st, config, daily_superspreader_status)
    ELSE independent_calculate_probability(n, st, config)

\* the comparison applies: an independent call, or a superspreader call
\* with nothing amplified
Comparable(n, st) ==
    model_call.model = "superspreader_dynamic" => NoneAmplified(n, st)

\* p <= q for normalised rationals, compared over their least common
\* denominator
RLeqCommon(p, q) ==
    LET common == (p[2] \div GCD(p[2], q[2])) * q[2]
    IN  p[1] * (common \div p[2]) <= q[1] * (common \div q[2])

\* C34: with no infected neighbour flagged, or a multiplier of 1, the
\* superspreader model gives a node the probability the independent model
\* gives it with base_prob_transmission = normal_base_infectivity; under
\* that condition, and for the independent model always, the probability is
\* the same for equal numbers of infected neighbours, whichever nodes they
\* are, and does not fall when the number grows.
C34_SuperspreaderReducesToIndependent ==
    (Called("superspreader_dynamic", "exact") \/ Called("independent", "exact")) =>
        LET n == model_call.node
            k == CalledK
        IN  /\ model_call.probability = CalledModelProbability(n, infection_state)
            /\ (model_call.model = "superspreader_dynamic"
                 /\ NoneAmplified(n, infection_state))
                  => model_call.probability
                       = independent_calculate_probability(
                            n, infection_state, AsIndependent(config))
            /\ Comparable(n, infection_state) =>
                  \A st \in NeighbourhoodsOf(n) :
                     Comparable(n, st) =>
                        LET k2 == Cardinality(InfectedNeighbors(n, st))
                            p2 == CalledModelProbability(n, st)
                        IN  /\ k2 = k => p2 = model_call.probability
                            /\ k2 >= k => RLeqCommon(model_call.probability, p2)

\* a superspreader call under the default infectivity and multiplier for a
\* partly defended node with two infected neighbours in the map, neither
\* flagged: a probability strictly between 0 and 1
C34_Witness ==
    /\ Called("superspreader_dynamic", "exact")
    /\ CalledK = 2
    /\ InfectedNeighbors(model_call.node, infection_state)
          \subseteq DOMAIN daily_superspreader_status
    /\ CalledFlagged = {}
    /\ SuperspreaderInfectivity = Half
    /\ RLess(RZero, model_call.probability)
    /\ RLess(model_call.probability, ROne)

====
